---- MODULE Spec2Model ----
(***************************************************************************)
(* A model of go-fio: the atomic file writer (safefile.go), the worker     *)
(* pool (workpool.go) and the tree cloner (clone/tree.go, clone/file.go,   *)
(* clone/hardlink.go, cmp/engine.go).                                      *)
(*                                                                         *)
(* The module holds three state machines over disjoint groups of           *)
(* variables.  Each has its own specification; the variables of the other  *)
(* machines stay at their initial values.                                  *)
(*   SafeFileSpec   NewSafeFile / Write / WriteAt / Abort / Close          *)
(*   WorkPoolSpec   NewWorkPool workers, harvester, Submit / Close / Wait  *)
(*   TreeSpec       clone.Tree: diff, then the four cloner stages          *)
(***************************************************************************)
EXTENDS Integers, Sequences, FiniteSets, TLC

VARIABLES
    \* ---- SafeFile (safefile.go) ----
    target,      \* the target path on disk: [k, d]
    prior,       \* history: the target as it was before NewSafeFile
    scratch,     \* the scratch path <target>.tmp.<pid>.<rand> on disk: [k, d]
    sfPos,       \* file offset of the scratch handle
    sfFd,        \* the *os.File handle: "none" | "open" | "closed"
    sfErr,       \* sf.err, the sticky error ("nil" when unset)
    sfClosed,    \* sf.closed: <0 aborted, >0 closed, 0 open
    sfNew,       \* outcome of NewSafeFile: "none" | "ok" | "failed"
    sfLast,      \* history: the last call and what it returned
    sfHist       \* history: counters and flags about the calls made so far

VARIABLES
    \* ---- WorkPool (workpool.go) ----
    pool,        \* the pools made so far, by number: see NewWorkPool
    wpCrashed,   \* the process died of a panic nobody recovered
    \* the client of WorkPoolSpec
    wpSubmitted, \* history: number of items passed to Submit (items 1..n)
    wpCalls,     \* history: item -> the results of the calls of fp on it
    wpClient     \* the callers of Submit and Err: where each is in its call

VARIABLES
    \* ---- Tree (clone/tree.go) ----
    srcFs,       \* the source tree on disk: name -> entry
    dstFs,       \* the destination tree on disk: name -> entry
    dstRoot,     \* the destination root directory exists
    trOpt,       \* the options of the call: [ignoreMissing, concurrency]
    trIn,        \* history: both trees as they were when Tree was called
    trPc,        \* where the goroutine that called Tree is
    trDiff,      \* the cmp.Difference computed by FsTree
    trDirs,      \* cc.dirs: per shard, the destination directories touched
    trM,         \* hardlinker.m: source inode -> first destination seen
    trLinks,     \* hardlinker.links: new destination -> first destination
    trGo,        \* the submitting goroutines of stages 2 and 3
    trTodo,      \* the sorted directories the loops of stages 1 and 4 have left
    trErrs,      \* fixup: the local errs slice (number of failed Lstat)
    trRes,       \* what Tree returned: "none" while it runs
    trDone,      \* history: per stage, the operations workers have finished
    trVanished,  \* history: source entries removed while Tree ran
    trWalk       \* the walk of the source by cmp.FsTree

sfVars == <<target, prior, scratch, sfPos, sfFd, sfErr, sfClosed, sfNew, sfLast, sfHist>>
poolVars == <<pool, wpCrashed>>
wpVars == <<poolVars, wpSubmitted, wpCalls, wpClient>>

VARIABLES
    \* ---- Walk (walk/walk.go) ----
    wkCfg,       \* the call: [names, opt, conc, mode]
    wkMain,      \* the goroutine that called Walk or WalkFunc
    wkW,         \* the worker goroutines
    wkEnq,       \* the goroutines of enq: the directories each has left to send
    wkCh,        \* d.ch, the channel of directories to walk
    wkOut,       \* out, the channel of results (Walk)
    wkErrch,     \* d.errch, the channel of errors
    wkClosed,    \* which of the three channels are closed
    wkDirWg,     \* d.dirWg: directories queued or in work
    wkWg,        \* d.wg: workers that have not called Done
    wkIno,       \* d.ino: the inode keys seen
    wkFs,        \* d.fs: the file system keys of the starting directories
    wkCloser,    \* Walk: the goroutine that closes the channels
    wkHarv,      \* WalkFunc: the goroutine that collects the errors
    wkEmitted    \* history: path -> how often its Info was emitted

VARIABLES
    \* ---- Diff (cmp/engine.go) ----
    dfIn,        \* the call: [lhs, rhs, conc], two maps name -> fio.Info
    dfPc,        \* doDiff: "lhs", "lhsw", "rhs", "rhsw", "done"
    dfTodo,      \* the names Range has not yet handed to Submit
    dfPool,      \* the work pool of the pass
    dfMap        \* the result maps and c.done: map name -> set of names

dfVars == <<dfIn, dfPc, dfTodo, dfPool, dfMap>>

VARIABLES
    \* ---- single calls of functions without shared state ----
    fnIn,        \* the call: the function and its arguments
    fnOut        \* what the call returned, once it has

fnVars == <<fnIn, fnOut>>

VARIABLES
    \* ---- CopyFd (copyfile.go, copy_linux.go, copy_mmap.go) ----
    cpIn,        \* the call: [src, prior, tier, fail]
    cpDst,       \* the bytes of the destination file
    cpS,         \* the copy: [pc, sz, roff, woff, calls, res]
    cpHist       \* history: the transfers of the range copy

cpVars == <<cpIn, cpDst, cpS, cpHist>>

VARIABLES
    \* ---- one stage of Tree on nested directories (part_004) ----
    nsIn,        \* the stage: [stage, had, set, deny, cwd]
    nsDst,       \* the names that exist in the destination
    nsOwn,       \* per name, where its operation is: "todo", then
                 \* "created" | "done" | "failed" | "removed" | "gone"
    nsPool,      \* the work pool of the stage
    nsTodo,      \* the names still to submit
    nsPc,        \* the main goroutine: "submit" | "wait" | "done"
    nsTouched    \* the directories recorded as touched

nsVars == <<nsIn, nsDst, nsOwn, nsPool, nsTodo, nsPc, nsTouched>>

\* the variables of the machines added after Diff
extVars == <<fnVars, cpVars, nsVars>>

wkVars == <<wkCfg, wkMain, wkW, wkEnq, wkCh, wkOut, wkErrch, wkClosed, wkDirWg, wkWg,
            wkIno, wkFs, wkCloser, wkHarv, wkEmitted>>

trVars == <<srcFs, dstFs, dstRoot, trOpt, trIn, trPc, trDiff, trDirs, trM, trLinks,
            trGo, trTodo, trErrs, trRes, trDone, trVanished, trWalk>>

vars == <<sfVars, wpVars, trVars, wkVars, dfVars, extVars>>

(***************************************************************************)
(* Bounds of the model.                                                    *)
(***************************************************************************)
\* longest file content the SafeFile machine writes
MaxFileLen == 3
\* number of Write/WriteAt/Close/Abort calls made on one SafeFile
MaxCalls == 4
\* worker goroutines of a pool (the nworkers argument, or runtime.NumCPU())
NWorkers == 2
\* items a client submits to a pool in WorkPoolSpec
MaxItems == 3
\* source entries another process removes while Tree runs
MaxVanish == 1
\* starting paths passed to Walk or WalkFunc
MaxStarts == 2

\* _ioChunkSize, in bytes of the model
ChunkSize == 2

\* 2^64 of the model: what a uint64 counts up to before it wraps
W64 == 65536
\* time.Second of the model: the nanoseconds of a second
Second == 10
\* calls of WorkPool.Err by the client
MaxErrs == 1
\* the count of the Infos put out for one path is kept up to this number
MaxEmit == 3

Min(a, b) == IF a < b THEN a ELSE b
Max(a, b) == IF a > b THEN a ELSE b

(***************************************************************************)
(*                              SafeFile                                   *)
(***************************************************************************)
nonSfVars == <<wpVars, trVars, wkVars, dfVars, extVars>>

Bytes == {1, 2}

\* what a path can hold
Absent == [k |-> "absent", d |-> <<>>]
Dir == [k |-> "dir", d |-> <<>>]
Reg(data) == [k |-> "reg", d |-> data]
\* a symlink: to a regular file that holds data, to a directory, to nothing
LinkReg(data) == [k |-> "link-reg", d |-> data]
LinkDir == [k |-> "link-dir", d |-> <<>>]
LinkNone == [k |-> "link-none", d |-> <<>>]

\* Stat(nm), which follows symlinks: the type of what the path leads to,
\* "none" when Stat fails for there is nothing
Stat(p) ==
    CASE p.k \in {"reg", "link-reg"} -> "reg"
      [] p.k \in {"dir", "link-dir"} -> "dir"
      [] OTHER -> "none"

\* byte strings of length lo..hi
Data(lo, hi) == UNION {[1..n -> Bytes] : n \in lo..hi}

\* os.File.WriteAt / write(2) at an offset: bytes of b replace those at
\* off+1.., the file grows as needed and a hole reads as zero bytes; a write
\* of no bytes leaves the file as it is, whatever the offset.
PutAt(data, off, b) ==
    IF b = <<>> THEN data
    ELSE LET n == Max(Len(data), off + Len(b))
         IN [i \in 1..n |->
               IF i > off /\ i <= off + Len(b) THEN b[i - off]
               ELSE IF i <= Len(data) THEN data[i]
               ELSE 0]

Prefix(b, n) == SubSeq(b, 1, n)

\* NewSafeFile(nm, opts, flag, perm).  ovw, cow: OPT_OVERWRITE, OPT_COW.
\* fail names the system call that fails, if any:
\*   "open-tmp" os.OpenFile(tmp), "open-old" os.Open(nm), "copy" CopyFd.
\* n: the bytes CopyFd had transferred when it failed.
NewSafeFile(ovw, cow, fail, n) ==
    /\ sfNew = "none"
    /\ UNCHANGED nonSfVars
    /\ sfLast' = [op |-> "NewSafeFile", ret |-> "nil"]
    /\ UNCHANGED <<target, prior, sfErr, sfClosed>>
    /\ sfHist' = [sfHist EXCEPT !.ovw = ovw]
    /\ IF Stat(target) # "none" /\ ~ovw
       THEN \* won't overwrite existing
            /\ sfNew' = "failed"
            /\ UNCHANGED <<scratch, sfPos, sfFd>>
       ELSE IF Stat(target) # "none" /\ Stat(target) # "reg"
       THEN \* not a regular file
            /\ sfNew' = "failed"
            /\ UNCHANGED <<scratch, sfPos, sfFd>>
       ELSE IF fail = "open-tmp"
       THEN /\ sfNew' = "failed"
            /\ UNCHANGED <<scratch, sfPos, sfFd>>
       ELSE IF cow /\ Stat(target) = "reg" /\ fail = "open-old"
       THEN \* return without closing fd or removing tmp
            /\ sfNew' = "failed"
            /\ scratch' = Reg(<<>>)
            /\ sfPos' = 0
            /\ sfFd' = "open"
       ELSE IF cow /\ Stat(target) = "reg" /\ fail = "copy"
       THEN /\ sfNew' = "failed"
            /\ scratch' = Reg(Prefix(target.d, Min(n, Len(target.d))))
            /\ sfPos' = 0
            /\ sfFd' = "open"
       ELSE /\ sfNew' = "ok"
            /\ scratch' = IF cow /\ Stat(target) = "reg" THEN Reg(target.d) ELSE Reg(<<>>)
            /\ sfPos' = 0
            /\ sfFd' = "open"

isOpen == sfClosed = 0

\* history: one more call, of which flagName records the kind
Called(flagName) == [sfHist EXCEPT !.calls = @ + 1, ![flagName] = TRUE]

\* history: one more call of Close or Abort
Sealed == [sfHist EXCEPT !.calls = @ + 1, !.seals = @ + 1]

\* history: a Write or WriteAt returned an error; werr keeps the error of
\* the first one that did
WriteFailed ==
    [sfHist EXCEPT !.calls = @ + 1, !.writeErr = TRUE,
                   !.writeErrUncommitted = @ \/ sfClosed # 1,
                   !.werr = IF @ = "nil" THEN sfLast'.ret ELSE @]

\* fullWrite(d, b): on success all of b is written at the file offset; on an
\* error only the first k < Len(b) bytes are.
fullWrite(b, ok, k) ==
    LET m == IF ok THEN Len(b) ELSE k
    IN /\ scratch' = Reg(PutAt(scratch.d, sfPos, Prefix(b, m)))
       /\ sfPos' = sfPos + m

\* a Close that does not look at the sticky error
StickyErrIgnored == FALSE

\* the sticky-error test that opens Write, WriteAt and Close
StickyErr == sfErr # "nil"

\* SafeFile.Write(b)
Write(b, ok, k) ==
    /\ sfPos + Len(b) <= MaxFileLen
    /\ k < Len(b)
    /\ sfNew = "ok"
    /\ sfHist.calls < MaxCalls
    /\ UNCHANGED nonSfVars
    /\ UNCHANGED <<target, prior, sfFd, sfClosed, sfNew>>
    /\ IF StickyErr
       THEN /\ sfLast' = [op |-> "Write", ret |-> sfErr]
            /\ sfHist' = WriteFailed
            /\ UNCHANGED <<scratch, sfPos, sfErr>>
       ELSE IF ~isOpen
       THEN /\ sfLast' = [op |-> "Write", ret |-> "not-open"]
            /\ sfHist' = WriteFailed
            /\ UNCHANGED <<scratch, sfPos, sfErr>>
       ELSE /\ fullWrite(b, ok, k)
            /\ sfErr' = IF ok THEN "nil" ELSE "write"
            /\ sfLast' = [op |-> "Write", ret |-> sfErr']
            /\ sfHist' = IF ok THEN Called("wrote") ELSE WriteFailed

\* SafeFile.WriteAt(b, off)
WriteAt(b, off, ok, k) ==
    /\ sfNew = "ok"
    /\ sfHist.calls < MaxCalls
    /\ UNCHANGED nonSfVars
    /\ UNCHANGED <<target, prior, sfFd, sfClosed, sfNew, sfPos>>
    /\ IF StickyErr
       THEN /\ sfLast' = [op |-> "WriteAt", ret |-> sfErr]
            /\ sfHist' = WriteFailed
            /\ UNCHANGED <<scratch, sfErr>>
       ELSE IF ~isOpen
       THEN /\ sfLast' = [op |-> "WriteAt", ret |-> "not-open"]
            /\ sfHist' = WriteFailed
            /\ UNCHANGED <<scratch, sfErr>>
       ELSE /\ scratch' = Reg(PutAt(scratch.d, off, Prefix(b, IF ok THEN Len(b) ELSE k)))
            /\ sfErr' = IF ok THEN "nil" ELSE "write"
            /\ sfLast' = [op |-> "WriteAt", ret |-> sfErr']
            /\ sfHist' = IF ok THEN Called("wrote") ELSE WriteFailed

\* the body of Abort: close the handle, remove the scratch file, mark aborted
AbortBody ==
    IF sfClosed # 0
    THEN UNCHANGED <<scratch, sfFd, sfClosed>>
    ELSE /\ sfFd' = "closed"
         /\ scratch' = Absent
         /\ sfClosed' = -1

\* SafeFile.Abort()
Abort ==
    /\ sfNew = "ok"
    /\ sfHist.calls < MaxCalls
    /\ UNCHANGED nonSfVars
    /\ AbortBody
    /\ sfLast' = [op |-> "Abort", ret |-> "nil"]
    /\ sfHist' = [Sealed EXCEPT !.abortCalled = TRUE,
                                 !.abortUncommitted = @ \/ sfClosed # 1]
    /\ UNCHANGED <<target, prior, sfPos, sfErr, sfNew>>

\* SafeFile.Close().  fail names the step that fails, if any: "sync"
\* (sf.Sync), "close" (sf.File.Close), "rename" (os.Rename), or "none".
Close(fail) ==
    /\ sfNew = "ok"
    /\ sfHist.calls < MaxCalls
    /\ UNCHANGED nonSfVars
    /\ UNCHANGED <<prior, sfPos, sfNew>>
    /\ IF StickyErr
       THEN /\ AbortBody
            /\ sfLast' = [op |-> "Close", ret |-> sfErr]
            /\ sfHist' = Sealed
            /\ UNCHANGED <<target, sfErr>>
       ELSE IF sfClosed < 0
       THEN /\ sfLast' = [op |-> "Close", ret |-> "aborted"]
            /\ sfHist' = Sealed
            /\ UNCHANGED <<target, scratch, sfFd, sfErr, sfClosed>>
       ELSE IF sfClosed > 0
       THEN /\ sfLast' = [op |-> "Close", ret |-> sfErr]
            /\ sfHist' = Sealed
            /\ UNCHANGED <<target, scratch, sfFd, sfErr, sfClosed>>
       ELSE IF fail = "sync"
       THEN /\ sfErr' = "sync"
            /\ sfLast' = [op |-> "Close", ret |-> "sync"]
            /\ sfHist' = Sealed
            /\ UNCHANGED <<target, scratch, sfFd, sfClosed>>
       ELSE IF fail = "close"
       THEN /\ sfErr' = "close"
            /\ sfFd' = "closed"
            /\ sfLast' = [op |-> "Close", ret |-> "close"]
            /\ sfHist' = Sealed
            /\ UNCHANGED <<target, scratch, sfClosed>>
       ELSE IF fail = "rename"
       THEN /\ sfErr' = "rename"
            /\ sfFd' = "closed"
            /\ sfLast' = [op |-> "Close", ret |-> "rename"]
            /\ sfHist' = Sealed
            /\ UNCHANGED <<target, scratch, sfClosed>>
       ELSE /\ sfFd' = "closed"
            /\ target' = Reg(scratch.d)
            /\ scratch' = Absent
            /\ sfClosed' = 1
            /\ sfLast' = [op |-> "Close", ret |-> "nil"]
            /\ sfHist' = [Sealed EXCEPT !.closeOk = TRUE, !.committed = scratch.d]
            /\ UNCHANGED sfErr

SfHist0 ==
    [calls |-> 0, seals |-> 0, wrote |-> FALSE, writeErr |-> FALSE,
     writeErrUncommitted |-> FALSE, abortCalled |-> FALSE,
     abortUncommitted |-> FALSE, closeOk |-> FALSE, committed |-> <<>>,
     werr |-> "nil", ovw |-> FALSE]

\* what the target path can hold before the SafeFile is made
PriorTargets ==
    {Absent, Dir, LinkReg(<<1>>), LinkDir, LinkNone} \cup {Reg(d) : d \in Data(0, 2)}

SfIdle ==
    /\ target = Absent
    /\ prior = Absent
    /\ scratch = Absent
    /\ sfPos = 0
    /\ sfFd = "none"
    /\ sfErr = "nil"
    /\ sfClosed = 0
    /\ sfNew = "none"
    /\ sfLast = [op |-> "none", ret |-> "nil"]
    /\ sfHist = SfHist0

SfInit ==
    /\ target \in PriorTargets
    /\ prior = target
    /\ scratch = Absent
    /\ sfPos = 0
    /\ sfFd = "none"
    /\ sfErr = "nil"
    /\ sfClosed = 0
    /\ sfNew = "none"
    /\ sfLast = [op |-> "none", ret |-> "nil"]
    /\ sfHist = SfHist0

SfNext ==
    \/ \E ovw \in BOOLEAN, cow \in BOOLEAN,
          fail \in {"none", "open-tmp", "open-old", "copy"}, n \in 0..1 :
          NewSafeFile(ovw, cow, fail, n)
    \/ \E b \in Data(1, 2), ok \in BOOLEAN, k \in 0..1 : Write(b, ok, k)
    \/ \E b \in Data(1, 1), off \in 0..(MaxFileLen - 1), ok \in BOOLEAN :
          WriteAt(b, off, ok, 0)
    \/ Abort
    \/ \E fail \in {"none", "sync", "close", "rename"} : Close(fail)

(***************************************************************************)
(*                              WorkPool                                   *)
(*                                                                         *)
(* A pool is a record:                                                     *)
(*   n          number of worker goroutines                                *)
(*   ch         wp.ch, the buffered submission channel (capacity n)        *)
(*   stopped    wp.stopped; Close also closes wp.ch                        *)
(*   wg         wp.wg: workers that have not called Done                   *)
(*   ech        wp.ech, the buffered error channel (capacity 1)            *)
(*   echClosed  wp.ech has been closed (by Wait)                           *)
(*   errs       wp.errs, the harvested errors                              *)
(*   w          per worker goroutine: [pc, item, err]                      *)
(*   harv       the harvester goroutine: "run" | "done" (ewg.Done called)  *)
(*   wait       the goroutine in Wait: "idle" | "wg" | "ewg" | "returned", *)
(*              "panic" when a second call of Wait panicked                *)
(*   ret        what Wait returned: the errors joined                      *)
(* The operators below give the guard (Can...) and the effect (Do...) of   *)
(* each step on one pool.                                                  *)
(***************************************************************************)
\* the pools of a run: WorkPoolSpec uses pool 1; Tree makes one per stage
Pools == {1, 2, 3, 4}

IdleWorker == [pc |-> "recv", item |-> 0, err |-> "nil"]

\* capacity of wp.ech: make(chan error, 1)
EchCap == 1

\* NewWorkPool: nworkers <= 1 means runtime.NumCPU() workers
PoolSize(nworkers, numCPU) == IF nworkers <= 1 THEN numCPU ELSE nworkers

\* NewWorkPool(nworkers, fp): the pool right after construction, with its
\* worker goroutines and its harvester started.  numCPU: runtime.NumCPU().
NewWorkPool(nworkers, numCPU) ==
    [n |-> PoolSize(nworkers, numCPU),
     ch |-> <<>>,
     stopped |-> FALSE,
     wg |-> PoolSize(nworkers, numCPU),
     ech |-> <<>>,
     echClosed |-> FALSE,
     errs |-> <<>>,
     w |-> [i \in 0..(PoolSize(nworkers, numCPU) - 1) |-> IdleWorker],
     harv |-> "run",
     wait |-> "idle",
     ret |-> <<>>]

\* no pool yet
NoPool ==
    [n |-> 0, ch |-> <<>>, stopped |-> FALSE, wg |-> 0, ech |-> <<>>,
     echClosed |-> FALSE, errs |-> <<>>, w |-> <<>>, harv |-> "none",
     wait |-> "idle", ret |-> <<>>]

\* Submit(w): wp.ch <- w, which blocks while the channel is full
CanSubmit(P) == ~P.stopped /\ Len(P.ch) < P.n
DoSubmit(P, item) == [P EXCEPT !.ch = Append(@, item)]

\* Close(): stopped.Swap(true); close(wp.ch)
CanClose(P) == P.n > 0 /\ ~P.stopped
DoClose(P) == [P EXCEPT !.stopped = TRUE]

\* worker: `for w := range wp.ch` receives the next item
CanRecv(P, w) == P.w[w].pc = "recv" /\ P.ch # <<>>
DoRecv(P, w) ==
    [P EXCEPT !.w[w] = [pc |-> "run", item |-> Head(P.ch), err |-> "nil"],
              !.ch = Tail(@)]

\* worker: the range loop ends on the closed and drained channel; wp.wg.Done()
CanExit(P, w) == P.w[w].pc = "recv" /\ P.ch = <<>> /\ P.stopped
DoExit(P, w) == [P EXCEPT !.w[w].pc = "exited", !.wg = @ - 1]

\* worker: fp(i, w) has returned or panicked.  res is
\*   [k |-> "nil"]            fp returned nil: back to the range loop
\*   [k |-> "err", e |-> e]   fp returned e: next, wp.ech <- e
\*   [k |-> "panic", e |-> e] fp panicked with an error value e: the deferred
\*                            function recovers it; next, wp.ech <- wrapped e
\*   [k |-> "panic-other"]    fp panicked with a value that is no error: the
\*                            assertion e.(error) in the deferred function
\*                            panics, and nothing recovers that
CanRun(P, w) == P.w[w].pc = "run"
DoRan(P, w, res) ==
    CASE res.k = "nil" -> [P EXCEPT !.w[w] = IdleWorker]
      [] res.k = "err" -> [P EXCEPT !.w[w].pc = "senderr", !.w[w].err = res.e]
      [] res.k = "panic" -> [P EXCEPT !.w[w].pc = "sendpanic", !.w[w].err = res.e]
      [] OTHER -> [P EXCEPT !.w[w].pc = "dead"]

\* the panic that takes the process down
Crashes(res) == res.k = "panic-other"

\* what the worker does once its send on wp.ech is through: after an error
\* of fp it goes on with the range loop; after a recovered panic the deferred
\* function returns and the goroutine ends (wp.wg.Done() is not reached)
AfterSend(pc) == IF pc = "senderr" THEN "recv" ELSE "dead"

\* worker: wp.ech <- err, which blocks while the channel is full
CanSendErr(P, w) ==
    /\ P.w[w].pc \in {"senderr", "sendpanic"}
    /\ ~P.echClosed
    /\ Len(P.ech) < EchCap
DoSendErr(P, w) ==
    [P EXCEPT !.ech = Append(@, P.w[w].err),
              !.w[w] = [pc |-> AfterSend(P.w[w].pc), item |-> 0, err |-> "nil"]]

\* harvester: `for e := range wp.ech` appends e to wp.errs
CanHarvest(P) == P.harv = "run" /\ P.ech # <<>>
DoHarvest(P) == [P EXCEPT !.errs = Append(@, Head(P.ech)), !.ech = Tail(@)]

\* harvester: the range loop ends on the closed and drained channel; ewg.Done()
CanHarvestDone(P) == P.harv = "run" /\ P.ech = <<>> /\ P.echClosed
DoHarvestDone(P) == [P EXCEPT !.harv = "done"]

\* Wait() is called
CanWaitCall(P) == P.n > 0 /\ P.wait = "idle"
DoWaitCall(P) == [P EXCEPT !.wait = "wg"]

\* a Wait that does not wait for the workers
WgNotAwaited(P) == TRUE

\* wp.wg.Wait() lets the caller through
WgDone(P) == P.wg = 0

\* Wait(): wp.wg.Wait() returns; close(wp.ech)
CanWaitWorkers(P) == P.wait = "wg" /\ WgDone(P)
DoWaitWorkers(P) == [P EXCEPT !.echClosed = TRUE, !.wait = "ewg"]

\* a Wait that does not wait for the harvester
EwgNotAwaited(P) == TRUE

\* wp.ewg.Wait() lets the caller through
EwgDone(P) == P.harv = "done"

\* Wait(): wp.ewg.Wait() returns; return errors.Join(wp.errs...) or nil
CanWaitReturn(P) == P.wait = "ewg" /\ EwgDone(P)
DoWaitReturn(P) == [P EXCEPT !.ret = P.errs, !.wait = "returned"]

\* some worker of the pool is inside fp
Working(P) == \E w \in DOMAIN P.w : P.w[w].pc = "run"

PoolIdle ==
    /\ pool = [p \in Pools |-> NoPool]
    /\ wpCrashed = FALSE

\* no call of Submit or Err is under way, none has panicked
NoClient == [sub |-> "idle", err |-> "idle", errs |-> 0, misused |-> FALSE]

WpIdle ==
    /\ PoolIdle
    /\ wpSubmitted = 0
    /\ wpCalls = <<>>
    /\ wpClient = NoClient

(***************************************************************************)
(* WorkPoolSpec: one pool and its clients: a goroutine that submits items  *)
(* 1, 2, ..., one that calls Err, one that closes the pool and one that    *)
(* calls Wait, in any order and interleaving.  What fp does with an item   *)
(* is chosen when it is called.                                            *)
(***************************************************************************)
nonWpVars == <<sfVars, trVars, wkVars, dfVars, extVars>>

Items == 1..MaxItems

\* the results fp can have on item i
FpResults(i) == {[k |-> "nil"], [k |-> "err", e |-> <<"err", i>>],
                 [k |-> "panic", e |-> <<"panic", i>>], [k |-> "panic-other"]}

\* the pool of WorkPoolSpec
wp == pool[1]

\* the pool of WorkPoolSpec becomes P
Becomes(P) == pool' = [pool EXCEPT ![1] = P]

WpInit ==
    /\ pool = [p \in Pools |-> IF p = 1 THEN NewWorkPool(NWorkers, NWorkers) ELSE NoPool]
    /\ wpCrashed = FALSE
    /\ wpSubmitted = 0
    /\ wpCalls = [i \in Items |-> <<>>]
    /\ wpClient = NoClient

\* a panic in a goroutine of the client: the process dies
Misused == [wpClient EXCEPT !.misused = TRUE]

\* Submit(w) is called: wp.stopped.Load(); panic("worker stopped") on a
\* closed pool, else on to the send
SubmitCall ==
    /\ ~wpCrashed
    /\ wpClient.sub = "idle"
    /\ wpSubmitted < MaxItems
    /\ IF wp.stopped
       THEN /\ wpCrashed' = TRUE
            /\ wpClient' = Misused
       ELSE /\ wpClient' = [wpClient EXCEPT !.sub = "send"]
            /\ UNCHANGED wpCrashed
    /\ UNCHANGED <<pool, wpSubmitted, wpCalls, nonWpVars>>

\* Submit(w): wp.ch <- w, which waits while the channel is full
Submit ==
    /\ ~wpCrashed
    /\ wpClient.sub = "send"
    /\ CanSubmit(wp)
    /\ Becomes(DoSubmit(wp, wpSubmitted + 1))
    /\ wpSubmitted' = wpSubmitted + 1
    /\ wpClient' = [wpClient EXCEPT !.sub = "idle"]
    /\ UNCHANGED <<wpCrashed, wpCalls, nonWpVars>>

\* Submit(w): wp.ch was closed after wp.stopped was read, before or while
\* the send waits: the send on the closed channel panics
SubmitClosed ==
    /\ ~wpCrashed
    /\ wpClient.sub = "send"
    /\ wp.stopped
    /\ wpCrashed' = TRUE
    /\ wpClient' = Misused
    /\ UNCHANGED <<pool, wpSubmitted, wpCalls, nonWpVars>>

\* Close(): stopped.Swap(true) finds false; close(wp.ch)
WpClose ==
    /\ ~wpCrashed
    /\ CanClose(wp)
    /\ Becomes(DoClose(wp))
    /\ UNCHANGED <<wpCrashed, wpSubmitted, wpCalls, wpClient, nonWpVars>>

\* Close() is called again: stopped.Swap(true) finds true;
\* panic("worker already closed")
CloseAgain ==
    /\ ~wpCrashed
    /\ wp.stopped
    /\ wpCrashed' = TRUE
    /\ wpClient' = Misused
    /\ UNCHANGED <<pool, wpSubmitted, wpCalls, nonWpVars>>

\* Err(err) is called: wp.stopped.Load(); on a closed pool the error is
\* dropped, else on to the send
ErrCall ==
    /\ ~wpCrashed
    /\ wpClient.err = "idle"
    /\ wpClient.errs < MaxErrs
    /\ wpClient' = [wpClient EXCEPT !.err = IF wp.stopped THEN "idle" ELSE "send",
                                    !.errs = @ + 1]
    /\ UNCHANGED <<pool, wpCrashed, wpSubmitted, wpCalls, nonWpVars>>

\* Err(err): wp.ech <- err, which waits while the channel is full
ErrSend ==
    /\ ~wpCrashed
    /\ wpClient.err = "send"
    /\ ~wp.echClosed
    /\ Len(wp.ech) < EchCap
    /\ Becomes([wp EXCEPT !.ech = Append(@, <<"user", wpClient.errs>>)])
    /\ wpClient' = [wpClient EXCEPT !.err = "idle"]
    /\ UNCHANGED <<wpCrashed, wpSubmitted, wpCalls, nonWpVars>>

\* Err(err): Wait closed wp.ech after wp.stopped was read: the send on the
\* closed channel panics
ErrClosed ==
    /\ ~wpCrashed
    /\ wpClient.err = "send"
    /\ wp.echClosed
    /\ wpCrashed' = TRUE
    /\ wpClient' = Misused
    /\ UNCHANGED <<pool, wpSubmitted, wpCalls, nonWpVars>>

WorkerRecv(w) ==
    /\ ~wpCrashed
    /\ CanRecv(wp, w)
    /\ Becomes(DoRecv(wp, w))
    /\ UNCHANGED <<wpCrashed, wpSubmitted, wpCalls, wpClient, nonWpVars>>

WorkerExit(w) ==
    /\ ~wpCrashed
    /\ CanExit(wp, w)
    /\ Becomes(DoExit(wp, w))
    /\ UNCHANGED <<wpCrashed, wpSubmitted, wpCalls, wpClient, nonWpVars>>

WorkerCall(w, res) ==
    /\ ~wpCrashed
    /\ CanRun(wp, w)
    /\ res \in FpResults(wp.w[w].item)
    /\ Becomes(DoRan(wp, w, res))
    /\ wpCrashed' = Crashes(res)
    /\ wpCalls' = [wpCalls EXCEPT ![wp.w[w].item] = Append(@, res.k)]
    /\ UNCHANGED <<wpSubmitted, wpClient, nonWpVars>>

WorkerSendErr(w) ==
    /\ ~wpCrashed
    /\ CanSendErr(wp, w)
    /\ Becomes(DoSendErr(wp, w))
    /\ UNCHANGED <<wpCrashed, wpSubmitted, wpCalls, wpClient, nonWpVars>>

Harvest ==
    /\ ~wpCrashed
    /\ CanHarvest(wp)
    /\ Becomes(DoHarvest(wp))
    /\ UNCHANGED <<wpCrashed, wpSubmitted, wpCalls, wpClient, nonWpVars>>

HarvestDone ==
    /\ ~wpCrashed
    /\ CanHarvestDone(wp)
    /\ Becomes(DoHarvestDone(wp))
    /\ UNCHANGED <<wpCrashed, wpSubmitted, wpCalls, wpClient, nonWpVars>>

WaitCall ==
    /\ ~wpCrashed
    /\ CanWaitCall(wp)
    /\ Becomes(DoWaitCall(wp))
    /\ UNCHANGED <<wpCrashed, wpSubmitted, wpCalls, wpClient, nonWpVars>>

WaitWorkers ==
    /\ ~wpCrashed
    /\ CanWaitWorkers(wp)
    /\ Becomes(DoWaitWorkers(wp))
    /\ UNCHANGED <<wpCrashed, wpSubmitted, wpCalls, wpClient, nonWpVars>>

WaitReturn ==
    /\ ~wpCrashed
    /\ CanWaitReturn(wp)
    /\ Becomes(DoWaitReturn(wp))
    /\ UNCHANGED <<wpCrashed, wpSubmitted, wpCalls, wpClient, nonWpVars>>

\* Wait() is called again after it returned: wp.wg.Wait() lets the caller
\* through at once, and close(wp.ech) of the closed channel panics
WaitAgain ==
    /\ ~wpCrashed
    /\ wp.wait = "returned"
    /\ Becomes([wp EXCEPT !.wait = "panic"])
    /\ wpCrashed' = TRUE
    /\ wpClient' = Misused
    /\ UNCHANGED <<wpSubmitted, wpCalls, nonWpVars>>

WpNext ==
    \/ WaitAgain
    \/ SubmitCall
    \/ Submit
    \/ SubmitClosed
    \/ WpClose
    \/ CloseAgain
    \/ ErrCall
    \/ ErrSend
    \/ ErrClosed
    \/ \E w \in DOMAIN wp.w : WorkerRecv(w)
    \/ \E w \in DOMAIN wp.w : WorkerExit(w)
    \/ \E w \in DOMAIN wp.w : \E res \in FpResults(wp.w[w].item) : WorkerCall(w, res)
    \/ \E w \in DOMAIN wp.w : WorkerSendErr(w)
    \/ Harvest
    \/ HarvestDone
    \/ WaitCall
    \/ WaitWorkers
    \/ WaitReturn

(***************************************************************************)
(*                      Tree: the file systems                             *)
(*                                                                         *)
(* A tree is a function from the names below (paths relative to the root)  *)
(* to entries.  An entry holds what Lstat reports (fio.Info) and the file  *)
(* content: t is the file type, "none" for a name that does not exist.     *)
(***************************************************************************)
\* the names of the model, in lexical order (sort.Strings)
NameOrder == <<"d", "d/f", "d/g">>

Names == {NameOrder[i] : i \in 1..Len(NameOrder)}

\* the place of a name in the order; the root sorts before everything in
\* it, and the working directory (".") before the paths of the destination
Idx(n) ==
    IF n = "cwd" THEN 0 - 1
    ELSE IF n = "." THEN 0
    ELSE CHOOSE i \in 1..Len(NameOrder) : NameOrder[i] = n

\* filepath.Dir; "." is the root of the tree
Parent(n) == IF n = "d" THEN "." ELSE "d"

\* fio.Info.Name(): filepath.Base of the path of the entry.  Handed to the
\* system as a path it is looked up in the working directory of the process
Name(n) == CASE n = "d" -> "./d" [] n = "d/f" -> "./f" [] OTHER -> "./g"

\* the paths the cloner works on: paths under the two roots, given by the
\* name relative to the root, and base names in the working directory.  The
\* working directory is none of the roots and has no entry of these names
Paths == Names \cup {Name(n) : n \in Names}

\* the working directory of the process
Cwd == "cwd"

\* filepath.Dir of a path of the cloner
DirOf(p) == IF p \in Names THEN Parent(p) ELSE Cwd


\* the names under n
RECURSIVE Under(_, _)
Under(n, m) == m # "." /\ (Parent(m) = n \/ Under(n, Parent(m)))

NoEnt == [t |-> "none", ino |-> 0, size |-> 0, mtime |-> 0, uid |-> 0, perm |-> 0, data |-> 0]

Exists(e) == e.t # "none"

\* Lstat of a path of the cloner, fs being the tree it is read from: a base
\* name is not found in the working directory
Lstat(fs, p) == IF p \in Names THEN fs[p] ELSE NoEnt

\* mtime of something written just now; uid of the process
Now == 9
MyUid == 0

\* inode numbers: 1..9 source, 11.. destination as found, 21.. made by Tree
OldIno(n) == 10 + Idx(n)
NewIno(n) == 20 + Idx(n)

\* a directory changes (an entry is made, removed or replaced in it)
Touch(fs, dir) ==
    IF dir = "." \/ ~Exists(fs[dir]) THEN fs ELSE [fs EXCEPT ![dir].mtime = Now]

\* os.MkdirAll(n, perm): [fs, err]
RECURSIVE MkdirAll(_, _, _)
MkdirAll(fs, n, perm) ==
    IF n = "." \/ fs[n].t = "dir" THEN [fs |-> fs, err |-> "nil"]
    ELSE IF fs[n].t = "file" THEN [fs |-> fs, err |-> "ENOTDIR"]
    ELSE LET up == MkdirAll(fs, Parent(n), perm) IN
         IF up.err # "nil" THEN up
         ELSE [fs |-> [Touch(up.fs, Parent(n)) EXCEPT ![n] =
                          [t |-> "dir", ino |-> NewIno(n), size |-> 0, mtime |-> Now,
                           uid |-> MyUid, perm |-> perm, data |-> 0]],
               err |-> "nil"]

\* a clone that leaves the metadata of the destination as it is
MetaNotCloned(fs, n, fi) == fs

\* updateMeta / UpdateMetadata: xattr, owner, mode and times of src go to dst
updateMeta(fs, n, fi) ==
    [fs EXCEPT ![n].mtime = fi.mtime, ![n].uid = fi.uid, ![n].perm = fi.perm]

\* clone.File(dst, src) on name n, where Lstat(src) gave s: a regular file
\* is copied to a scratch file that is renamed over dst (a new inode); a
\* directory is made with MkdirAll; then the metadata is cloned.  [fs, err]
\* gone: the source is no longer there when copyFile looks it up again
\* (Lstat(src.Name())), after the scratch file was made; the copy fails and
\* the scratch file is removed.
\* copyRegular: NewSafeFile with OPT_COW|OPT_OVERWRITE fills the scratch file
\* with the old destination file, fio.CopyFd writes the source over it from
\* offset 0 and truncates nothing: what an old file had beyond the size of
\* the source stays
copyRegular(s, old) ==
    IF old.t = "file" /\ old.size > s.size
    THEN [size |-> old.size, data |-> 10 * s.data + old.data]
    ELSE [size |-> s.size, data |-> s.data]

File(s, gone, fs, n) ==
    IF ~Exists(s) THEN [fs |-> fs, err |-> "ENOENT"]
    ELSE IF s.t = "file" THEN
        LET up == MkdirAll(fs, Parent(n), s.perm) IN
        IF up.err # "nil" THEN up
        ELSE IF up.fs[n].t = "dir" THEN [fs |-> up.fs, err |-> "not a regular file"]
        ELSE IF gone THEN [fs |-> Touch(up.fs, Parent(n)), err |-> "ENOENT"]
        ELSE [fs |-> updateMeta([Touch(up.fs, Parent(n)) EXCEPT ![n] =
                         [t |-> "file", ino |-> NewIno(n),
                          size |-> copyRegular(s, up.fs[n]).size, mtime |-> Now,
                          uid |-> MyUid, perm |-> s.perm,
                          data |-> copyRegular(s, up.fs[n]).data]], n, s),
              err |-> "nil"]
    ELSE
        LET mk == MkdirAll(fs, n, s.perm) IN
        IF mk.err # "nil" THEN mk
        ELSE [fs |-> updateMeta(mk.fs, n, s), err |-> "nil"]

\* copyRegular up to fio.CopyFd: the directory of dst is made and
\* NewSafeFile makes the scratch file in it
Scratch(s, fs, n) ==
    LET up == MkdirAll(fs, Parent(n), s.perm) IN
    IF up.err # "nil" \/ up.fs[n].t = "dir" THEN up.fs ELSE Touch(up.fs, Parent(n))

\* cloner.xcopy: with IgnoreMissing a source that is gone is no error
xcopy(s, gone, fs, n, ignoreMissing) ==
    LET r == File(s, gone, fs, n) IN
    IF r.err = "ENOENT" /\ ignoreMissing THEN [fs |-> r.fs, err |-> "nil"] ELSE r

\* os.RemoveAll(n): n and everything under it go; never an error here
RemoveAll(fs, n) ==
    IF ~Exists(fs[n]) THEN fs
    ELSE [m \in Names |-> IF m = n \/ Under(n, m) THEN NoEnt ELSE Touch(fs, Parent(n))[m]]

\* os.Remove(n): a file or an empty directory goes; errors are ignored
Remove(fs, n) ==
    IF ~Exists(fs[n]) \/ (\E m \in Names : Under(n, m) /\ Exists(fs[m])) THEN fs
    ELSE [Touch(fs, Parent(n)) EXCEPT ![n] = NoEnt]

\* os.Link(orig, n): n becomes another name of the inode of orig
Link(fs, orig, n) ==
    IF ~Exists(fs[orig]) THEN [fs |-> fs, err |-> "ENOENT"]
    ELSE IF Exists(fs[n]) THEN [fs |-> fs, err |-> "EEXIST"]
    ELSE IF Parent(n) # "." /\ fs[Parent(n)].t # "dir" THEN [fs |-> fs, err |-> "ENOENT"]
    ELSE [fs |-> [Touch(fs, Parent(n)) EXCEPT ![n] = fs[orig]], err |-> "nil"]

\* fio.Info.Nlink as Lstat reports it at the time of the call: the names of
\* the inode in the tree
Nlink(fs, n) == Cardinality({m \in Names : Exists(fs[m]) /\ fs[m].ino = fs[n].ino})

(***************************************************************************)
(*                      Tree: cmp.FsTree                                   *)
(***************************************************************************)
\* makeEqFunc: the attributes that make two entries of one type equal
fileEq(l, r) == l.mtime = r.mtime /\ l.uid = r.uid

\* fi.Mod & ^fs.ModePerm: the file type and the setuid, setgid and sticky
\* bits.  The field perm holds Mod without the type: perm % 4 the permission
\* bits (fs.ModePerm), perm \div 4 the bits above them.
NotModePerm(e) == <<e.t, e.perm \div 4>>

\* lhsDiff: where a name of the source goes
lhsDiff(l, r) ==
    IF ~Exists(r) THEN (IF l.t = "dir" THEN "LeftDirs" ELSE "LeftFiles")
    ELSE IF NotModePerm(l) # NotModePerm(r) THEN "Funny"
    ELSE IF l.t = "file" /\ l.size # r.size THEN "Diff"
    ELSE IF ~fileEq(l, r) THEN "Diff"
    ELSE IF l.t = "dir" THEN "CommonDirs" ELSE "CommonFiles"

\* rhsDiff: where a name only the destination has goes
rhsDiff(r) == IF r.t = "dir" THEN "RightDirs" ELSE "RightFiles"

\* the class of name n in the difference of two trees ("" when in neither)
Class(lhs, rhs, n) ==
    IF Exists(lhs[n]) THEN lhsDiff(lhs[n], rhs[n])
    ELSE IF Exists(rhs[n]) THEN rhsDiff(rhs[n])
    ELSE ""

\* cmp.FsTree: the Difference, with the fio.Info of both sides as walked
FsTree(lhs, rhs) ==
    [lhs |-> lhs, rhs |-> rhs, class |-> [n \in Names |-> Class(lhs, rhs, n)]]

NoDiff == FsTree([n \in Names |-> NoEnt], [n \in Names |-> NoEnt])

\* the names of one class of the difference
In(diff, class) == {n \in Names : diff.class[n] = class}

\* a set of names as the sorted slice (dirlist: keys, then sort.Strings)
RECURSIVE Sorted(_)
Sorted(S) ==
    IF S = {} THEN <<>>
    ELSE LET n == CHOOSE x \in S : \A y \in S : Idx(x) <= Idx(y)
         IN <<n>> \o Sorted(S \ {n})

\* sort.Sort(sort.Reverse(...))
RECURSIVE Reversed(_)
Reversed(q) == IF q = <<>> THEN <<>> ELSE Append(Reversed(Tail(q)), Head(q))

(***************************************************************************)
(*                      Tree: the cloner                                   *)
(*                                                                         *)
(* Pool p is the pool of stage p: 1 makes the new directories, 2 copies    *)
(* and deletes, 3 makes the hard links, 4 is the pool of fixup.            *)
(***************************************************************************)
nonTrVars == <<sfVars, wpSubmitted, wpCalls, wpClient, wkVars, dfVars, extVars>>

\* the work items: copyOp{src, dst}, delOp{name}, linkOp{src, dst} and
\* mdOp{src, dst}.  nm is the path worked on: a name under the roots or a
\* base name; orig is the first destination of a linkOp; fi is the fio.Info
\* of an mdOp, and in a copyOp of a regular file the fio.Info that File got
\* from Lstat once the source is open.
copyOp(n) == [k |-> "copy", nm |-> n, orig |-> "", fi |-> NoEnt]
delOp(n) == [k |-> "del", nm |-> n, orig |-> "", fi |-> NoEnt]
linkOp(s, d) == [k |-> "link", nm |-> d, orig |-> s, fi |-> NoEnt]
mdOp(fi, n) == [k |-> "md", nm |-> n, orig |-> "", fi |-> fi]

\* dowork, and the work functions of stages 1 and 4: what one operation does
\* to the destination.  [fs, err, dir]: dir is the directory the worker
\* tracks in its shard ("" for none).
dowork(op, src, fs, ignoreMissing, stage) ==
    CASE op.k = "copy" ->
            LET s == IF Exists(op.fi) THEN op.fi ELSE Lstat(src, op.nm)
                r == xcopy(s, ~Exists(Lstat(src, op.nm)), fs, op.nm, ignoreMissing)
            IN [fs |-> r.fs, err |-> r.err,
                dir |-> IF r.err = "nil" /\ stage # 1 THEN DirOf(op.nm) ELSE ""]
      [] op.k = "del" ->
            [fs |-> IF op.nm \in Names THEN RemoveAll(fs, op.nm) ELSE fs,
             err |-> "nil", dir |-> DirOf(op.nm)]
      [] op.k = "link" ->
            LET rm == IF op.nm \in Names THEN Remove(fs, op.nm) ELSE fs
                r == IF op.nm \in Names /\ op.orig \in Names THEN Link(rm, op.orig, op.nm)
                     ELSE [fs |-> rm,
                           err |-> IF Exists(Lstat(rm, op.orig)) THEN "nil" ELSE "ENOENT"]
            IN [fs |-> r.fs, err |-> r.err,
                dir |-> IF r.err = "nil" THEN DirOf(op.nm) ELSE ""]
      [] op.nm = Cwd ->
            [fs |-> fs, err |-> "nil", dir |-> ""]
      [] OTHER ->
            IF Exists(fs[op.nm])
            THEN [fs |-> updateMeta(fs, op.nm, op.fi), err |-> "nil", dir |-> ""]
            ELSE [fs |-> fs, err |-> IF ignoreMissing THEN "nil" ELSE "ENOENT",
                  dir |-> ""]

\* the inodes the files of the source can have
FileInos == {1, 2}

\* hardlinker.key: device and inode; the model has one device
key(fi) == fi.ino

\* hardlinker.track returns false at once: one link, or no regular file;
\* nlink is the link count the Lstat of the walk recorded in the Info
Untracked(lhs, nlink, n) == nlink[n] = 1 \/ lhs[n].t # "file"

\* the destination a goroutine of stage 2 gives for name n: Diff takes
\* p.Dst.Name(), LeftFiles joins the root and the relative name
GoDst(g, n) == IF g = "Diff" THEN Name(n) ELSE n

\* the goroutines that submit the work of stage 2, and the one of stage 3
Goers == {"RightFiles", "RightDirs", "Diff", "LeftFiles", "links"}

Go0 == [pc |-> "off", todo |-> {}, cur |-> "", orig |-> ""]

\* `go func() { m.Range(...); wg.Done() }()` over the names in todo
GoStart(todo) ==
    [pc |-> IF todo = {} THEN "done" ELSE "pick", todo |-> todo, cur |-> "", orig |-> ""]

\* the Range callback returns: on to the next name, or wg.Done()
GoNext(g) == GoStart(g.todo)

\* the stage whose pool a goroutine submits to
StageOf(g) == IF g = "links" THEN 3 ELSE 2

\* the walk of the source: q the directories sent to the workers, cur the
\* directory a worker is in, names what readDir gave and is not yet looked
\* at, lhs the entries stored so far, nlink the link count in each of them,
\* err whether an error was reported
NoWalk ==
    [pc |-> "off", q |-> {}, cur |-> "", names |-> {}, lhs |-> [n \in Names |-> NoEnt],
     nlink |-> [n \in Names |-> 0], err |-> FALSE]

TreeIdle ==
    /\ srcFs = [n \in Names |-> NoEnt]
    /\ dstFs = [n \in Names |-> NoEnt]
    /\ dstRoot = FALSE
    /\ trOpt = [ignoreMissing |-> FALSE, concurrency |-> 0]
    /\ trIn = [src |-> srcFs, dst |-> dstFs, root |-> FALSE, fault |-> "none"]
    /\ trPc = "idle"
    /\ trDiff = NoDiff
    /\ trDirs = <<>>
    /\ trM = [i \in FileInos |-> ""]
    /\ trLinks = [n \in Paths |-> ""]
    /\ trGo = [g \in Goers |-> Go0]
    /\ trTodo = <<>>
    /\ trErrs = 0
    /\ trRes = "none"
    /\ trDone = [p \in Pools |-> {}]
    /\ trVanished = {}
    /\ trWalk = NoWalk

\* the names that can be directories: those with names under them
CanBeDir(n) == \E m \in Names : Parent(m) = n

SrcFile(i) == [t |-> "file", ino |-> i, size |-> 1, mtime |-> 1, uid |-> 1, perm |-> 1, data |-> 1]
SrcDir(n) == [t |-> "dir", ino |-> 3 + Idx(n), size |-> 0, mtime |-> 1, uid |-> 1, perm |-> 1, data |-> 0]

\* how a destination entry compares with the source entries: 1 like them;
\* 2 another mtime and other content, and for the last name one byte more;
\* 3 the same size, mtime and owner but other permission bits and other
\* content
Variants == {1, 2, 3}

DstFile(n, v) ==
    [t |-> "file", ino |-> OldIno(n),
     size |-> IF v = 2 /\ n = NameOrder[Len(NameOrder)] THEN 2 ELSE 1, mtime |-> IF v = 2 THEN 2 ELSE 1,
     uid |-> 1, perm |-> IF v = 3 THEN 2 ELSE 1, data |-> v]
DstDir(n, v) ==
    [t |-> "dir", ino |-> OldIno(n), size |-> 0, mtime |-> IF v = 2 THEN 2 ELSE 1,
     uid |-> 1, perm |-> IF v = 3 THEN 2 ELSE 1, data |-> 0]

\* every entry lies in a directory
WellFormed(fs) ==
    \A n \in Names : Exists(fs[n]) /\ Parent(n) # "." => fs[Parent(n)].t = "dir"

Files(fs) == {n \in Names : fs[n].t = "file"}

\* source trees: files of up to two inodes (so, with hard links), the first
\* file on inode 1
SrcTrees ==
    {fs \in [Names -> {NoEnt} \cup {SrcFile(i) : i \in FileInos} \cup {SrcDir(n) : n \in Names}] :
        /\ WellFormed(fs)
        /\ \A n \in Names : fs[n].t = "dir" => CanBeDir(n) /\ fs[n] = SrcDir(n)
        /\ \A n \in Files(fs) : (\A m \in Files(fs) : Idx(n) <= Idx(m)) => fs[n].ino = 1}

DstTrees ==
    {fs \in [Names -> {NoEnt} \cup UNION {{DstFile(n, v), DstDir(n, v)} : n \in Names, v \in Variants}] :
        /\ WellFormed(fs)
        /\ \A n \in Names : Exists(fs[n]) => fs[n].ino = OldIno(n)
        /\ \A n \in Names : fs[n].t = "dir" => CanBeDir(n)}

\* what is wrong with the two roots, if anything: Lstat(src) fails, src is
\* no directory, Lstat(dst) fails with another error than not-exist, dst is
\* no directory, dst does not exist and cannot be made
RootFaults == {"none", "lstat-src", "src-not-dir", "lstat-dst", "dst-not-dir", "mkdst"}

TrInit ==
    /\ srcFs \in SrcTrees
    /\ dstFs \in DstTrees
    /\ dstRoot \in BOOLEAN
    /\ ~dstRoot => \A n \in Names : ~Exists(dstFs[n])
    /\ trOpt \in [ignoreMissing : BOOLEAN, concurrency : {1, NWorkers}]
    /\ \E fault \in RootFaults :
          /\ fault \in {"lstat-src", "src-not-dir"} => \A n \in Names : ~Exists(srcFs[n])
          /\ fault \in {"lstat-dst", "dst-not-dir", "mkdst"} => ~dstRoot
          /\ trIn = [src |-> srcFs, dst |-> dstFs, root |-> dstRoot, fault |-> fault]
    /\ trPc = "start"
    /\ trDiff = NoDiff
    /\ trDirs = <<>>
    /\ trM = [i \in FileInos |-> ""]
    /\ trLinks = [n \in Paths |-> ""]
    /\ trGo = [g \in Goers |-> Go0]
    /\ trTodo = <<>>
    /\ trErrs = 0
    /\ trRes = "none"
    /\ trDone = [p \in Pools |-> {}]
    /\ trVanished = {}
    /\ trWalk = NoWalk
    /\ PoolIdle

\* runtime.NumCPU() of the machine
NumCPU == NWorkers

\* fio.NewWorkPool(cc.Concurrency, ...)
StagePool == NewWorkPool(trOpt.concurrency, NumCPU)

\* a Tree that does not look at Funny
FunnyIgnored(diff) == FALSE

\* diff.Funny.Size() > 0
HasFunny(diff) == In(diff, "Funny") # {}

\* Tree up to cmp.FsTree: Lstat of both roots; an error, or a root that is
\* no directory, ends the call; the destination root is made by File(dst,
\* src) if it is missing.  Then the walk of the source starts: doWalk sends
\* the root to the workers.
TreeCall ==
    /\ trPc = "start"
    /\ IF trIn.fault # "none"
       THEN /\ trRes' = trIn.fault
            /\ trPc' = "done"
            /\ UNCHANGED <<dstRoot, trWalk>>
       ELSE /\ trRes' = "none"
            /\ trPc' = "walk"
            /\ dstRoot' = TRUE
            /\ trWalk' = [NoWalk EXCEPT !.pc = "worker", !.q = {"."}]
    /\ UNCHANGED <<srcFs, dstFs, trOpt, trIn, trDiff, trDirs, trM, trLinks, trGo, trTodo,
                   trErrs, trDone, trVanished, poolVars, nonTrVars>>

\* the entries of the directory n of the source, as Readdirnames gives them
SrcKids(n) == {m \in Names : Parent(m) = n /\ Exists(srcFs[m])}

\* a directory of the source is there (the root always is)
SrcThere(n) == n = "." \/ Exists(srcFs[n])

\* the walk, worker: a directory n comes from d.ch; Lstatm(n), and the Info
\* is stored (walkTree does not store the root); an error is reported and
\* the next directory taken
TrWalkWorker(n) ==
    /\ trPc = "walk"
    /\ trWalk.pc = "worker"
    /\ n \in trWalk.q
    /\ trWalk' = IF SrcThere(n)
                 THEN [trWalk EXCEPT !.pc = "readdir", !.q = @ \ {n}, !.cur = n,
                                     !.lhs = IF n = "." THEN @
                                             ELSE [@ EXCEPT ![n] = srcFs[n]],
                                     !.nlink = IF n = "." THEN @
                                               ELSE [@ EXCEPT ![n] = Nlink(srcFs, n)]]
                 ELSE [trWalk EXCEPT !.q = @ \ {n}, !.err = TRUE]
    /\ UNCHANGED <<srcFs, dstFs, dstRoot, trOpt, trIn, trPc, trDiff, trDirs, trM, trLinks,
                   trGo, trTodo, trErrs, trRes, trDone, trVanished, poolVars, nonTrVars>>

\* the walk, walkPath: readDir of the directory the worker is in
TrReadDir ==
    /\ trPc = "walk"
    /\ trWalk.pc = "readdir"
    /\ trWalk' = IF SrcThere(trWalk.cur)
                 THEN [trWalk EXCEPT !.pc = IF SrcKids(trWalk.cur) = {} THEN "worker"
                                            ELSE "entries",
                                     !.names = SrcKids(trWalk.cur)]
                 ELSE [trWalk EXCEPT !.pc = "worker", !.err = TRUE]
    /\ UNCHANGED <<srcFs, dstFs, dstRoot, trOpt, trIn, trPc, trDiff, trDirs, trM, trLinks,
                   trGo, trTodo, trErrs, trRes, trDone, trVanished, poolVars, nonTrVars>>

\* the walk, walkPath: Lstatm of one of the names readDir gave; an error is
\* reported, a directory goes to the workers, a file is stored
TrWalkEntry(n) ==
    /\ trPc = "walk"
    /\ trWalk.pc = "entries"
    /\ n \in trWalk.names
    /\ LET w == [trWalk EXCEPT !.names = @ \ {n},
                               !.pc = IF trWalk.names = {n} THEN "worker" ELSE "entries"]
       IN trWalk' = IF ~Exists(srcFs[n]) THEN [w EXCEPT !.err = TRUE]
                    ELSE IF srcFs[n].t = "dir" THEN [w EXCEPT !.q = @ \cup {n}]
                    ELSE [w EXCEPT !.lhs[n] = srcFs[n], !.nlink[n] = Nlink(srcFs, n)]
    /\ UNCHANGED <<srcFs, dstFs, dstRoot, trOpt, trIn, trPc, trDiff, trDirs, trM, trLinks,
                   trGo, trTodo, trErrs, trRes, trDone, trVanished, poolVars, nonTrVars>>

\* cmp.FsTree after the walks: the walk of the source is over when no
\* directory is left; the destination does not change while it is walked.
\* With an error of the walk Tree returns Error{tree-diff}; otherwise
\* cmpInternal runs on the maps the walks have filled (no disk access).
TreeWalk ==
    /\ trPc = "walk"
    /\ trWalk.pc = "worker"
    /\ trWalk.q = {}
    /\ IF trWalk.err
       THEN /\ trRes' = "tree-diff"
            /\ trPc' = "done"
            /\ UNCHANGED trDiff
       ELSE /\ trDiff' = FsTree(trWalk.lhs, dstFs)
            /\ trPc' = "diff"
            /\ UNCHANGED trRes
    /\ trWalk' = [NoWalk EXCEPT !.nlink = trWalk.nlink]
    /\ UNCHANGED <<srcFs, dstFs, dstRoot, trOpt, trIn, trDirs, trM, trLinks, trGo, trTodo,
                   trErrs, trDone, trVanished, poolVars, nonTrVars>>

\* Tree after cmp.FsTree: a difference with Funny entries ends the call;
\* otherwise newCloner, and clone() starts its first pool.
TreeClone ==
    /\ trPc = "diff"
    /\ IF HasFunny(trDiff)
       THEN /\ trRes' = "funny"
            /\ trPc' = "done"
            /\ UNCHANGED <<pool, trDirs, trTodo>>
       ELSE /\ trRes' = "none"
            /\ trPc' = "s1"
            /\ pool' = [pool EXCEPT ![1] = StagePool]
            /\ trDirs' = [i \in 0..(trOpt.concurrency - 1) |-> {}]
            /\ trTodo' = Sorted(In(trDiff, "LeftDirs"))
    /\ UNCHANGED <<srcFs, dstFs, dstRoot, trOpt, trIn, trDiff, trM, trLinks, trGo, trErrs,
                   trDone, trVanished, trWalk, wpCrashed, nonTrVars>>

\* stage 1, the loop body: dm[dst] = true; dirWp.Submit(copyOp{src, dst})
S1Submit ==
    /\ trPc = "s1"
    /\ trTodo # <<>>
    /\ CanSubmit(pool[1])
    /\ trDirs' = [trDirs EXCEPT ![0] = @ \cup {Head(trTodo)}]
    /\ pool' = [pool EXCEPT ![1] = DoSubmit(@, copyOp(Head(trTodo)))]
    /\ trTodo' = Tail(trTodo)
    /\ UNCHANGED <<srcFs, dstFs, dstRoot, trOpt, trIn, trPc, trDiff, trM, trLinks, trGo,
                   trErrs, trRes, trDone, trVanished, trWalk, wpCrashed, nonTrVars>>

\* the stage of the main goroutine while it submits or waits
MainStage == CASE trPc \in {"s1", "w1"} -> 1
               [] trPc \in {"s2", "w2"} -> 2
               [] trPc \in {"s3", "w3"} -> 3
               [] trPc \in {"s4", "w4"} -> 4
               [] OTHER -> 0

\* everything of the stage has been submitted
Submitted ==
    CASE trPc = "s1" -> trTodo = <<>>
      [] trPc = "s2" -> \A g \in Goers : StageOf(g) = 2 => trGo[g].pc = "done"
      [] trPc = "s3" -> trGo["links"].pc = "done"
      [] trPc = "s4" -> trTodo = <<>>
      [] OTHER -> FALSE

\* wg.Wait() is over (stages 2 and 3) or the loop has ended (stages 1 and
\* 4): Close() the pool of the stage and call Wait()
StageClose ==
    /\ Submitted
    /\ pool' = [pool EXCEPT ![MainStage] = DoWaitCall(DoClose(@))]
    /\ trPc' = CASE trPc = "s1" -> "w1" [] trPc = "s2" -> "w2"
                 [] trPc = "s3" -> "w3" [] OTHER -> "w4"
    /\ UNCHANGED <<srcFs, dstFs, dstRoot, trOpt, trIn, trDiff, trDirs, trM, trLinks, trGo,
                   trTodo, trErrs, trRes, trDone, trVanished, trWalk, wpCrashed, nonTrVars>>

\* Wait() of the pool of the stage returns.  An error ends Tree; otherwise
\* the next stage starts: its pool is made and its goroutines are started.
\* After stage 3 the shards are merged and fixup sorts the directories,
\* deepest first.  fixup returns its errors only when Wait returned one.
StageReturn ==
    /\ trPc \in {"w1", "w2", "w3", "w4"}
    /\ CanWaitReturn(pool[MainStage])
    /\ LET P == DoWaitReturn(pool[MainStage])
           failed == P.ret # <<>>
           dirmap == UNION {trDirs[i] : i \in DOMAIN trDirs}
       IN /\ pool' = IF failed \/ trPc = "w4"
                     THEN [pool EXCEPT ![MainStage] = P]
                     ELSE [pool EXCEPT ![MainStage] = P, ![MainStage + 1] = StagePool]
          /\ trRes' = IF failed THEN "error" ELSE IF trPc = "w4" THEN "nil" ELSE "none"
          /\ trPc' = IF failed THEN "done"
                     ELSE CASE trPc = "w1" -> "s2" [] trPc = "w2" -> "s3"
                            [] trPc = "w3" -> "s4" [] OTHER -> "done"
          /\ trGo' = IF failed THEN trGo
                     ELSE CASE trPc = "w1" ->
                                 [g \in Goers |-> IF g = "links" THEN Go0
                                                  ELSE GoStart(In(trDiff, g))]
                            [] trPc = "w2" ->
                                 [trGo EXCEPT !["links"] =
                                     GoStart({n \in Paths : trLinks[n] # ""})]
                            [] OTHER -> trGo
          /\ trTodo' = IF ~failed /\ trPc = "w3" THEN Reversed(Sorted(dirmap)) ELSE trTodo
    /\ UNCHANGED <<srcFs, dstFs, dstRoot, trOpt, trIn, trDiff, trDirs, trM, trLinks,
                   trErrs, trDone, trVanished, trWalk, wpCrashed, nonTrVars>>

\* RightFiles, RightDirs: wp.Submit(&delOp{fi.Name()});
\* links: wp.Submit(&linkOp{s, d})
GoSubmit(g) ==
    /\ g \in {"RightFiles", "RightDirs", "links"}
    /\ trGo[g].pc = "pick"
    /\ CanSubmit(pool[StageOf(g)])
    /\ \E n \in trGo[g].todo :
          /\ pool' = [pool EXCEPT ![StageOf(g)] =
                         DoSubmit(@, IF g = "links" THEN linkOp(trLinks[n], n)
                                     ELSE delOp(Name(n)))]
          /\ trGo' = [trGo EXCEPT ![g] = GoStart(trGo[g].todo \ {n})]
    /\ UNCHANGED <<srcFs, dstFs, dstRoot, trOpt, trIn, trPc, trDiff, trDirs, trM, trLinks,
                   trTodo, trErrs, trRes, trDone, trVanished, trWalk, wpCrashed, nonTrVars>>

\* Diff, LeftFiles: the callback takes the next name and calls
\* hardlinker.track, up to and with h.m.Load(k)
GoTrackLoad(g) ==
    /\ g \in {"Diff", "LeftFiles"}
    /\ trGo[g].pc = "pick"
    /\ \E n \in trGo[g].todo :
          LET orig == trM[key(trDiff.lhs[n])] IN
          trGo' = [trGo EXCEPT ![g] =
                      [pc |-> IF Untracked(trDiff.lhs, trWalk.nlink, n) THEN "submit"
                              ELSE IF orig # "" THEN "storelink" ELSE "storem",
                       todo |-> trGo[g].todo \ {n},
                       cur |-> n,
                       orig |-> IF Untracked(trDiff.lhs, trWalk.nlink, n) THEN "" ELSE orig]]
    /\ UNCHANGED <<srcFs, dstFs, dstRoot, trOpt, trIn, trPc, trDiff, trDirs, trM, trLinks,
                   trTodo, trErrs, trRes, trDone, trVanished, trWalk, poolVars, nonTrVars>>

\* hardlinker.track after the Load: h.links.Store(dst, orig) and the file is
\* linked later, or h.m.Store(k, dst) and the file is copied
GoTrackStore(g) ==
    /\ trGo[g].pc \in {"storelink", "storem"}
    /\ IF trGo[g].pc = "storelink"
       THEN /\ trLinks' = [trLinks EXCEPT ![GoDst(g, trGo[g].cur)] = trGo[g].orig]
            /\ trGo' = [trGo EXCEPT ![g] = GoNext(trGo[g])]
            /\ UNCHANGED trM
       ELSE /\ trM' = [trM EXCEPT ![key(trDiff.lhs[trGo[g].cur])] = GoDst(g, trGo[g].cur)]
            /\ trGo' = [trGo EXCEPT ![g].pc = "submit"]
            /\ UNCHANGED trLinks
    /\ UNCHANGED <<srcFs, dstFs, dstRoot, trOpt, trIn, trPc, trDiff, trDirs,
                   trTodo, trErrs, trRes, trDone, trVanished, trWalk, poolVars, nonTrVars>>

\* Diff, LeftFiles: track returned false; wp.Submit(&copyOp{src, dst}).
\* Diff gives p.Src.Name() and p.Dst.Name(), LeftFiles the joined paths
GoCopy(g) ==
    /\ trGo[g].pc = "submit"
    /\ CanSubmit(pool[2])
    /\ pool' = [pool EXCEPT ![2] = DoSubmit(@, copyOp(GoDst(g, trGo[g].cur)))]
    /\ trGo' = [trGo EXCEPT ![g] = GoNext(trGo[g])]
    /\ UNCHANGED <<srcFs, dstFs, dstRoot, trOpt, trIn, trPc, trDiff, trDirs, trM, trLinks,
                   trTodo, trErrs, trRes, trDone, trVanished, trWalk, wpCrashed, nonTrVars>>

\* what Lstat reports for the directory above the roots
Above == [t |-> "dir", ino |-> 3, size |-> 0, mtime |-> 1, uid |-> 1, perm |-> 1, data |-> 0]

\* fixup, the loop body: the root is skipped; a directory the source does not
\* have is an error kept in errs; otherwise wp.Submit(mdOp{fi, p}).  For the
\* working directory the path joined from the source root and
\* filepath.Rel(cc.Dst, ".") leads to a directory above the root, which is
\* there
FixupStep ==
    /\ trPc = "s4"
    /\ trTodo # <<>>
    /\ LET nm == Head(trTodo) IN
       IF nm = "." THEN UNCHANGED <<pool, trErrs>>
       ELSE IF nm # Cwd /\ ~Exists(srcFs[nm]) THEN trErrs' = trErrs + 1 /\ UNCHANGED pool
       ELSE /\ CanSubmit(pool[4])
            /\ pool' = [pool EXCEPT ![4] =
                            DoSubmit(@, mdOp(IF nm = Cwd THEN Above ELSE srcFs[nm], nm))]
            /\ UNCHANGED trErrs
    /\ trTodo' = Tail(trTodo)
    /\ UNCHANGED <<srcFs, dstFs, dstRoot, trOpt, trIn, trPc, trDiff, trDirs, trM, trLinks,
                   trGo, trRes, trDone, trVanished, trWalk, wpCrashed, nonTrVars>>

\* a worker of pool p takes the next operation
TrRecv(p, w) ==
    /\ CanRecv(pool[p], w)
    /\ pool' = [pool EXCEPT ![p] = DoRecv(@, w)]
    /\ UNCHANGED <<trVars, wpCrashed, nonTrVars>>

\* a worker of pool p finds the channel closed and drained
TrExit(p, w) ==
    /\ CanExit(pool[p], w)
    /\ pool' = [pool EXCEPT ![p] = DoExit(@, w)]
    /\ UNCHANGED <<trVars, wpCrashed, nonTrVars>>

\* the work functions of stages 2 and 3 index the shards with the worker's
\* number: cc.dirs[i]
UsesShard(p) == p \in {2, 3}

\* cc.dirs[i] is in range
ShardInRange(i) == i \in DOMAIN trDirs

\* the operation is the copy of a regular file that File has not yet opened
NeedsOpen(op) ==
    /\ op.k = "copy"
    /\ Lstat(srcFs, op.nm).t = "file"
    /\ ~Exists(op.fi)

\* a worker of pool p starts the copy of a regular file: clone.File up to
\* fio.CopyFd.  Lstat(src) and os.Open(src) find the source, copyRegular
\* makes the directory of dst and NewSafeFile the scratch file in it.
TrOpen(p, w) ==
    /\ CanRun(pool[p], w)
    /\ NeedsOpen(pool[p].w[w].item)
    /\ ~(UsesShard(p) /\ ~ShardInRange(w))
    /\ LET op == pool[p].w[w].item IN
       /\ pool' = [pool EXCEPT ![p].w[w].item.fi = srcFs[op.nm]]
       /\ dstFs' = Scratch(srcFs[op.nm], dstFs, op.nm)
    /\ UNCHANGED <<srcFs, dstRoot, trOpt, trIn, trPc, trDiff, trDirs, trM, trLinks, trGo,
                   trTodo, trErrs, trRes, trDone, trVanished, trWalk, wpCrashed, nonTrVars>>

\* a worker of pool p runs its operation: the work function of the stage.
\* In stages 2 and 3 the argument cc.dirs[i] is evaluated first, and an index
\* out of range panics with a runtime error before dowork is called.  The
\* copy of a regular file goes on from the scratch file: copyFile looks the
\* source up again.
TrWork(p, w) ==
    /\ CanRun(pool[p], w)
    /\ ~NeedsOpen(pool[p].w[w].item) \/ (UsesShard(p) /\ ~ShardInRange(w))
    /\ LET op == pool[p].w[w].item
           r == dowork(op, srcFs, dstFs, trOpt.ignoreMissing, p)
       IN IF UsesShard(p) /\ ~ShardInRange(w)
          THEN /\ pool' = [pool EXCEPT ![p] =
                              DoRan(@, w, [k |-> "panic", e |-> <<"index out of range", op.nm>>])]
               /\ UNCHANGED <<dstFs, trDirs, trDone>>
          ELSE /\ dstFs' = r.fs
               /\ trDirs' = IF r.dir = "" THEN trDirs ELSE [trDirs EXCEPT ![w] = @ \cup {r.dir}]
               /\ pool' = [pool EXCEPT ![p] =
                              DoRan(@, w, IF r.err = "nil" THEN [k |-> "nil"]
                                          ELSE [k |-> "err", e |-> <<r.err, op.nm>>])]
               /\ trDone' = [trDone EXCEPT ![p] = @ \cup {op.nm}]
    /\ UNCHANGED <<srcFs, dstRoot, trOpt, trIn, trPc, trDiff, trM, trLinks, trGo, trTodo,
                   trErrs, trRes, trVanished, trWalk, wpCrashed, nonTrVars>>

\* a worker of pool p sends its error to the harvester
TrSendErr(p, w) ==
    /\ CanSendErr(pool[p], w)
    /\ pool' = [pool EXCEPT ![p] = DoSendErr(@, w)]
    /\ UNCHANGED <<trVars, wpCrashed, nonTrVars>>

\* the harvester of pool p
TrHarvest(p) ==
    /\ CanHarvest(pool[p])
    /\ pool' = [pool EXCEPT ![p] = DoHarvest(@)]
    /\ UNCHANGED <<trVars, wpCrashed, nonTrVars>>

TrHarvestDone(p) ==
    /\ CanHarvestDone(pool[p])
    /\ pool' = [pool EXCEPT ![p] = DoHarvestDone(@)]
    /\ UNCHANGED <<trVars, wpCrashed, nonTrVars>>

\* Wait() of pool p: the workers are done, the error channel is closed
TrWaitWorkers(p) ==
    /\ CanWaitWorkers(pool[p])
    /\ pool' = [pool EXCEPT ![p] = DoWaitWorkers(@)]
    /\ UNCHANGED <<trVars, wpCrashed, nonTrVars>>

\* another process removes an entry of the source while Tree runs: during
\* the walks of cmp.FsTree, or any time after
SrcVanish(n) ==
    /\ trPc \notin {"start", "done"}
    /\ Cardinality(trVanished) < MaxVanish
    /\ Exists(srcFs[n])
    /\ \A m \in Names : Under(n, m) => ~Exists(srcFs[m])
    /\ srcFs' = [Touch(srcFs, Parent(n)) EXCEPT ![n] = NoEnt]
    /\ trVanished' = trVanished \cup {n}
    /\ UNCHANGED <<dstFs, dstRoot, trOpt, trIn, trPc, trDiff, trDirs, trM, trLinks, trGo,
                   trTodo, trErrs, trRes, trDone, trWalk, poolVars, nonTrVars>>

TrNext ==
    \/ TreeCall
    \/ \E n \in Names \cup {"."} : TrWalkWorker(n)
    \/ TrReadDir
    \/ \E n \in Names : TrWalkEntry(n)
    \/ TreeWalk
    \/ TreeClone
    \/ S1Submit
    \/ StageClose
    \/ StageReturn
    \/ \E g \in Goers : GoSubmit(g)
    \/ \E g \in Goers : GoTrackLoad(g)
    \/ \E g \in Goers : GoTrackStore(g)
    \/ \E g \in Goers : GoCopy(g)
    \/ FixupStep
    \/ \E p \in Pools : \E w \in DOMAIN pool[p].w : TrRecv(p, w)
    \/ \E p \in Pools : \E w \in DOMAIN pool[p].w : TrExit(p, w)
    \/ \E p \in Pools : \E w \in DOMAIN pool[p].w : TrOpen(p, w)
    \/ \E p \in Pools : \E w \in DOMAIN pool[p].w : TrWork(p, w)
    \/ \E p \in Pools : \E w \in DOMAIN pool[p].w : TrSendErr(p, w)
    \/ \E p \in Pools : TrHarvest(p)
    \/ \E p \in Pools : TrHarvestDone(p)
    \/ \E p \in Pools : TrWaitWorkers(p)
    \/ \E n \in Names : SrcVanish(n)

(***************************************************************************)
(*                      Walk: the concurrent walker                        *)
(*                                                                         *)
(* The walker runs on a fixed tree: two directories on one file system,    *)
(* a directory that is the mount point of another file system, a file      *)
(* with two names, a symbolic link to a directory in b and one in the      *)
(* working directory, and a device file; some calls run on the tree with   *)
(* one more symbolic link: b/b, that leads to b, the directory it is in.   *)
(***************************************************************************)
nonWkVars == <<sfVars, wpVars, trVars, dfVars, extVars>>

NoNode == [t |-> "none", dev |-> 0, rdev |-> 0, ino |-> 0, to |-> "", base |-> "", up |-> ""]

Node(t, dev, rdev, ino, to, base, up) ==
    [t |-> t, dev |-> dev, rdev |-> rdev, ino |-> ino, to |-> to, base |-> base, up |-> up]

\* the paths of the tree, relative to the working directory of the process,
\* in the order Readdirnames lists them: the working directory holds the
\* directories a and b and the symbolic link t
WkOrder == <<"a", "a/f", "a/s", "a/s/h", "b", "b/b", "b/g", "b/l", "b/n", "t">>

WkPaths == {WkOrder[i] : i \in 1..Len(WkOrder)}

\* what Lstat reports for a path; up is the directory the path is in
WkTree(p) ==
    CASE p = "a"     -> Node("dir",  1, 0, 1, "", "a", "")
      [] p = "a/f"   -> Node("file", 1, 0, 3, "", "f", "a")
      [] p = "a/s"   -> Node("dir",  2, 0, 1, "", "s", "a")
      [] p = "a/s/h" -> Node("file", 2, 0, 2, "", "h", "a/s")
      [] p = "b"     -> Node("dir",  1, 0, 2, "", "b", "")
      [] p = "b/g"   -> Node("file", 1, 0, 3, "", "g", "b")
      [] p = "b/l"   -> Node("link", 1, 0, 5, "a/s", "l", "b")
      [] p = "b/n"   -> Node("dev",  1, 7, 6, "", "n", "b")
      [] p = "b/b" /\ wkCfg.cyc -> Node("link", 1, 0, 7, "b", "b", "b")
      [] p = "t"     -> Node("link", 1, 0, 8, "a/s", "t", "")
      [] OTHER       -> [NoNode EXCEPT !.base = p]

\* p lies somewhere beneath the path d
RECURSIVE Beneath(_, _)
Beneath(d, p) == WkTree(p).up # "" /\ (WkTree(p).up = d \/ Beneath(d, WkTree(p).up))

\* readDir(nm): the names in directory nm, as full paths
RECURSIVE SelectKids(_, _)
SelectKids(nm, q) ==
    IF q = <<>> THEN <<>>
    ELSE (IF WkTree(Head(q)).up = nm THEN <<Head(q)>> ELSE <<>>) \o SelectKids(nm, Tail(q))

readDir(nm) == SelectKids(nm, WkOrder)

\* walk.Type: the kinds of entries a caller can ask for
AllTypes == {"file", "dir", "link", "dev"}

\* the options of a call
WkOpt(types, follow, oneFS, ignDup, excludes) ==
    [types |-> types, follow |-> follow, oneFS |-> oneFS, ignDup |-> ignDup,
     excludes |-> excludes]

WkOptions ==
    {WkOpt(AllTypes, FALSE, FALSE, FALSE, {}),
     WkOpt({"file"}, FALSE, FALSE, FALSE, {}),
     WkOpt({"dir"}, FALSE, FALSE, FALSE, {}),
     WkOpt(AllTypes, FALSE, FALSE, TRUE, {}),
     WkOpt(AllTypes, TRUE, FALSE, TRUE, {}),
     WkOpt(AllTypes, FALSE, TRUE, FALSE, {}),
     WkOpt(AllTypes, FALSE, FALSE, FALSE, {"s"}),
     WkOpt(AllTypes, TRUE, FALSE, FALSE, {"s"})}

\* the starting paths: directories, a file, a symbolic link, a path that does
\* not exist
WkStartNames == {"a", "b", "a/f", "t", "nx"}

WkStarts == UNION {[1..n -> WkStartNames] : n \in 1..MaxStarts}

\* walkState.exclude: the basename matches one of the patterns
exclude(opt, p) == WkTree(p).base \in opt.excludes

\* the keys of d.fs and of d.ino
fsKey(fi) == <<fi.dev, fi.rdev>>
inoKey(fi) == <<fi.dev, fi.rdev, fi.ino>>

\* a walker that never takes an inode as seen
NeverSeen(opt, ino, fi) == FALSE

\* walkState.isEntrySeen: what it returns; d.ino.LoadOrStore is one atomic
\* step, and Marked is the map after it
isEntrySeen(opt, ino, fi) == opt.ignDup /\ inoKey(fi) \in ino
Marked(opt, ino, fi) == IF opt.ignDup THEN ino \cup {inoKey(fi)} ELSE ino

\* walkState.isSingleFS (d.singlefs: always true without OneFS)
isSingleFS(opt, fsk, fi) == ~opt.oneFS \/ fsKey(fi) \in fsk

\* a walker that emits entries of every type
AnyType(opt, fi) == TRUE

\* walkState.output: the type mask lets the entry through
Selected(opt, fi) == fi.t \in opt.types

\* what becomes of one entry: act is "skip", "out" (its Info is emitted),
\* "err" (an error is sent) or "dir" (the path is appended to dirs)
Outcome(ino, fsk, act, p) == [ino |-> ino, fsk |-> fsk, act |-> act, p |-> p]

\* walkState.output(fi)
output(opt, ino, fsk, p) ==
    Outcome(ino, fsk, IF Selected(opt, WkTree(p)) THEN "out" ELSE "skip", p)

\* filepath.EvalSymlinks(nm): the path nm, looked up from the working
\* directory, with the links in it resolved; "" when the lookup fails
RECURSIVE EvalSymlinks(_)
EvalSymlinks(nm) ==
    LET fi == WkTree(nm) IN
    IF fi.t = "none" THEN ""
    ELSE IF fi.t = "link" THEN EvalSymlinks(fi.to)
    ELSE nm

\* walkState.doSymlink: the link found at path p is resolved by fi.Name(),
\* the last element of p, which the system looks up in the working directory
doSymlink(opt, ino, fsk, p) ==
    IF ~opt.follow THEN output(opt, ino, fsk, p)
    ELSE LET nm == EvalSymlinks(WkTree(p).base)
             fi == WkTree(nm)
         IN IF nm = "" THEN Outcome(ino, fsk, "err", p)
            ELSE IF isEntrySeen(opt, ino, fi) THEN Outcome(ino, fsk, "skip", nm)
            ELSE IF fi.t = "dir"
                 THEN Outcome(Marked(opt, ino, fi), fsk,
                              IF isSingleFS(opt, fsk, fi) THEN "dir" ELSE "skip", nm)
                 ELSE output(opt, Marked(opt, ino, fi), fsk, nm)

\* the body of the loops of doWalk (start) and walkPath (not start) for the
\* path p
walkEntry(opt, ino, fsk, p, start) ==
    LET fi == WkTree(p) IN
    IF exclude(opt, p) THEN Outcome(ino, fsk, "skip", p)
    ELSE IF fi.t = "none" THEN Outcome(ino, fsk, "err", p)
    ELSE IF isEntrySeen(opt, ino, fi) THEN Outcome(ino, fsk, "skip", p)
    ELSE LET ino1 == Marked(opt, ino, fi) IN
         CASE fi.t = "dir" ->
                 IF start
                 THEN Outcome(ino1, IF opt.oneFS THEN fsk \cup {fsKey(fi)} ELSE fsk, "dir", p)
                 ELSE Outcome(ino1, fsk, IF isSingleFS(opt, fsk, fi) THEN "dir" ELSE "skip", p)
           [] fi.t = "link" -> doSymlink(opt, ino1, fsk, p)
           [] OTHER -> output(opt, ino1, fsk, p)

\* what a goroutine has to send next: an Info on out (or to the callback)
\* or an error on d.errch
NoPend == [ch |-> "", v |-> ""]

PendOf(r) == IF r.act \in {"out", "err"} THEN [ch |-> r.act, v |-> r.p] ELSE NoPend

\* a worker that puts out the directory after the entries in it
DirLast(nm, kids) == kids \o <<[self |-> TRUE, p |-> nm]>>

\* the worker's order of work on directory nm: its own Info first, then the
\* entries in it
DirFirst(nm, kids) == <<[self |-> TRUE, p |-> nm]>> \o kids

RECURSIVE Entries(_)
Entries(q) == IF q = <<>> THEN <<>> ELSE <<[self |-> FALSE, p |-> Head(q)]>> \o Entries(Tail(q))

WkIdleWorker == [pc |-> "recv", todo |-> <<>>, dirs |-> <<>>, pend |-> NoPend]

WkCap == wkCfg.conc

WalkIdle ==
    /\ wkCfg = [names |-> <<>>, opt |-> WkOpt({}, FALSE, FALSE, FALSE, {}), conc |-> 0,
                cyc |-> FALSE,
                mode |-> "none"]
    /\ wkMain = [pc |-> "idle", i |-> 1, dirs |-> <<>>, pend |-> NoPend]
    /\ wkW = <<>>
    /\ wkEnq = <<>>
    /\ wkCh = <<>>
    /\ wkOut = <<>>
    /\ wkErrch = <<>>
    /\ wkClosed = {}
    /\ wkDirWg = 0
    /\ wkWg = 0
    /\ wkIno = {}
    /\ wkFs = {}
    /\ wkCloser = "off"
    /\ wkHarv = "off"
    /\ wkEmitted = [q \in WkPaths |-> 0]

\* Walk / WalkFunc up to doWalk: newWalkState has made the channels and
\* started the workers
WkInit ==
    /\ wkCfg \in [names : WkStarts, opt : WkOptions, conc : {1, NWorkers},
                  cyc : BOOLEAN, mode : {"Walk", "WalkFunc"}]
    \* the tree with the link b/b is walked from one starting path, with
    \* FollowSymlinks
    /\ wkCfg.cyc => (wkCfg.opt.follow /\ Len(wkCfg.names) = 1)
    /\ wkMain = [pc |-> "doWalk", i |-> 1, dirs |-> <<>>, pend |-> NoPend]
    /\ wkW = [w \in 1..wkCfg.conc |-> WkIdleWorker]
    /\ wkEnq = <<>>
    /\ wkCh = <<>>
    /\ wkOut = <<>>
    /\ wkErrch = <<>>
    /\ wkClosed = {}
    /\ wkDirWg = 0
    /\ wkWg = wkCfg.conc
    /\ wkIno = {}
    /\ wkFs = {}
    /\ wkCloser = "off"
    /\ wkHarv = "off"
    /\ wkEmitted = [q \in WkPaths |-> 0]

\* the pending send can go through: out <- fi and d.errch <- e block while
\* the channel is full; the callback of WalkFunc is just called
CanSend(pend) ==
    CASE pend.ch = "out" -> wkCfg.mode = "WalkFunc" \/ Len(wkOut) < WkCap
      [] pend.ch = "err" -> Len(wkErrch) < WkCap
      [] OTHER -> FALSE

\* d.apply(fi) or d.error(e)
Send(pend) ==
    /\ CanSend(pend)
    /\ IF pend.ch = "out"
       THEN /\ wkOut' = IF wkCfg.mode = "Walk" THEN Append(wkOut, pend.v) ELSE wkOut
            /\ wkEmitted' = [wkEmitted EXCEPT ![pend.v] = Min(@ + 1, MaxEmit)]
            /\ UNCHANGED wkErrch
       ELSE /\ wkErrch' = Append(wkErrch, pend.v)
            /\ UNCHANGED <<wkOut, wkEmitted>>

\* an enq that leaves the wait group as it is
enqNoAdd(dirs) == 0

\* enq(dirs): d.dirWg.Add(len(dirs)), before the goroutine that sends them
\* is started
enqAdd(dirs) == Len(dirs)

\* doWalk, the loop body on names[i]
DoWalkEntry ==
    /\ wkMain.pc = "doWalk"
    /\ wkMain.pend = NoPend
    /\ wkMain.i <= Len(wkCfg.names)
    /\ LET r == walkEntry(wkCfg.opt, wkIno, wkFs, wkCfg.names[wkMain.i], TRUE) IN
       /\ wkIno' = r.ino
       /\ wkFs' = r.fsk
       /\ wkMain' = [wkMain EXCEPT !.i = @ + 1,
                                   !.dirs = IF r.act = "dir" THEN Append(@, r.p) ELSE @,
                                   !.pend = PendOf(r)]
    /\ UNCHANGED <<wkCfg, wkW, wkEnq, wkCh, wkOut, wkErrch, wkClosed, wkDirWg, wkWg,
                   wkCloser, wkHarv, wkEmitted, nonWkVars>>

\* doWalk: d.output(fi) or d.error(e) of the loop body
DoWalkSend ==
    /\ wkMain.pend # NoPend
    /\ Send(wkMain.pend)
    /\ wkMain' = [wkMain EXCEPT !.pend = NoPend]
    /\ UNCHANGED <<wkCfg, wkW, wkEnq, wkCh, wkClosed, wkDirWg, wkWg, wkIno, wkFs,
                   wkCloser, wkHarv, nonWkVars>>

\* doWalk ends with d.enq(dirs).  Then Walk starts the goroutine that closes
\* the channels and returns them; WalkFunc starts the goroutine that collects
\* the errors and goes on to d.dirWg.Wait()
DoWalkEnq ==
    /\ wkMain.pc = "doWalk"
    /\ wkMain.pend = NoPend
    /\ wkMain.i > Len(wkCfg.names)
    /\ wkDirWg' = wkDirWg + enqAdd(wkMain.dirs)
    /\ wkEnq' = IF wkMain.dirs = <<>> THEN wkEnq ELSE Append(wkEnq, wkMain.dirs)
    /\ wkMain' = [wkMain EXCEPT !.pc = IF wkCfg.mode = "Walk" THEN "returned" ELSE "dirwait",
                                !.dirs = <<>>]
    /\ wkCloser' = IF wkCfg.mode = "Walk" THEN "wait" ELSE wkCloser
    /\ wkHarv' = IF wkCfg.mode = "Walk" THEN wkHarv ELSE "run"
    /\ UNCHANGED <<wkCfg, wkW, wkCh, wkOut, wkErrch, wkClosed, wkWg, wkIno, wkFs,
                   wkEmitted, nonWkVars>>

\* a goroutine of enq: d.ch <- nm
EnqSend(k) ==
    /\ Len(wkCh) < WkCap
    /\ wkCh' = Append(wkCh, Head(wkEnq[k]))
    /\ wkEnq' = IF Len(wkEnq[k]) = 1
                THEN SubSeq(wkEnq, 1, k - 1) \o SubSeq(wkEnq, k + 1, Len(wkEnq))
                ELSE [wkEnq EXCEPT ![k] = Tail(@)]
    /\ UNCHANGED <<wkCfg, wkMain, wkW, wkOut, wkErrch, wkClosed, wkDirWg, wkWg, wkIno,
                   wkFs, wkCloser, wkHarv, wkEmitted, nonWkVars>>

\* worker: the next directory arrives on d.ch
WkRecv(w) ==
    /\ wkW[w].pc = "recv"
    /\ wkCh # <<>>
    /\ wkCh' = Tail(wkCh)
    /\ wkW' = [wkW EXCEPT ![w] = [pc |-> "walk",
                                  todo |-> DirFirst(Head(wkCh), Entries(readDir(Head(wkCh)))),
                                  dirs |-> <<>>, pend |-> NoPend]]
    /\ UNCHANGED <<wkCfg, wkMain, wkEnq, wkOut, wkErrch, wkClosed, wkDirWg, wkWg, wkIno,
                   wkFs, wkCloser, wkHarv, wkEmitted, nonWkVars>>

\* worker: d.output(fi) of the directory itself, or the loop body of
\* walkPath on the next entry
WkEntry(w) ==
    /\ wkW[w].pc = "walk"
    /\ wkW[w].pend = NoPend
    /\ wkW[w].todo # <<>>
    /\ LET it == Head(wkW[w].todo)
           r == IF it.self THEN output(wkCfg.opt, wkIno, wkFs, it.p)
                ELSE walkEntry(wkCfg.opt, wkIno, wkFs, it.p, FALSE)
       IN /\ wkIno' = r.ino
          /\ wkW' = [wkW EXCEPT ![w].todo = Tail(@),
                                ![w].dirs = IF r.act = "dir" THEN Append(@, r.p) ELSE @,
                                ![w].pend = PendOf(r)]
    /\ UNCHANGED <<wkCfg, wkMain, wkEnq, wkCh, wkOut, wkErrch, wkClosed, wkDirWg, wkWg,
                   wkFs, wkCloser, wkHarv, wkEmitted, nonWkVars>>

\* worker: the send of d.output(fi) or d.error(e)
WkSend(w) ==
    /\ wkW[w].pend # NoPend
    /\ Send(wkW[w].pend)
    /\ wkW' = [wkW EXCEPT ![w].pend = NoPend]
    /\ UNCHANGED <<wkCfg, wkMain, wkEnq, wkCh, wkClosed, wkDirWg, wkWg, wkIno, wkFs,
                   wkCloser, wkHarv, nonWkVars>>

\* worker: walkPath ends with d.enq(dirs); then d.dirWg.Done()
WkFinish(w) ==
    /\ wkW[w].pc = "walk"
    /\ wkW[w].pend = NoPend
    /\ wkW[w].todo = <<>>
    /\ wkDirWg' = wkDirWg + enqAdd(wkW[w].dirs) - 1
    /\ wkEnq' = IF wkW[w].dirs = <<>> THEN wkEnq ELSE Append(wkEnq, wkW[w].dirs)
    /\ wkW' = [wkW EXCEPT ![w] = WkIdleWorker]
    /\ UNCHANGED <<wkCfg, wkMain, wkCh, wkOut, wkErrch, wkClosed, wkWg, wkIno, wkFs,
                   wkCloser, wkHarv, wkEmitted, nonWkVars>>

\* worker: d.ch is closed and drained; d.wg.Done()
WkExit(w) ==
    /\ wkW[w].pc = "recv"
    /\ wkCh = <<>>
    /\ "ch" \in wkClosed
    /\ wkW' = [wkW EXCEPT ![w].pc = "exited"]
    /\ wkWg' = wkWg - 1
    /\ UNCHANGED <<wkCfg, wkMain, wkEnq, wkCh, wkOut, wkErrch, wkClosed, wkDirWg, wkIno,
                   wkFs, wkCloser, wkHarv, wkEmitted, nonWkVars>>

\* Walk, the closing goroutine: d.dirWg.Wait() is over; close(d.ch),
\* close(out), close(d.errch)
CloserClose ==
    /\ wkCloser = "wait"
    /\ wkDirWg = 0
    /\ wkClosed' = {"ch", "out", "errch"}
    /\ wkCloser' = "wgwait"
    /\ UNCHANGED <<wkCfg, wkMain, wkW, wkEnq, wkCh, wkOut, wkErrch, wkDirWg, wkWg, wkIno,
                   wkFs, wkHarv, wkEmitted, nonWkVars>>

\* Walk, the closing goroutine: d.wg.Wait() is over
CloserDone ==
    /\ wkCloser = "wgwait"
    /\ wkWg = 0
    /\ wkCloser' = "done"
    /\ UNCHANGED <<wkCfg, wkMain, wkW, wkEnq, wkCh, wkOut, wkErrch, wkClosed, wkDirWg,
                   wkWg, wkIno, wkFs, wkHarv, wkEmitted, nonWkVars>>

\* the caller of Walk, once it has the channels, takes an Info from out
DrainOut ==
    /\ wkCfg.mode = "Walk"
    /\ wkMain.pc = "returned"
    /\ wkOut # <<>>
    /\ wkOut' = Tail(wkOut)
    /\ UNCHANGED <<wkCfg, wkMain, wkW, wkEnq, wkCh, wkErrch, wkClosed, wkDirWg, wkWg,
                   wkIno, wkFs, wkCloser, wkHarv, wkEmitted, nonWkVars>>

\* the caller of Walk takes an error from the error channel; in WalkFunc the
\* collecting goroutine does
DrainErr ==
    /\ \/ wkCfg.mode = "Walk" /\ wkMain.pc = "returned"
       \/ wkHarv = "run"
    /\ wkErrch # <<>>
    /\ wkErrch' = Tail(wkErrch)
    /\ UNCHANGED <<wkCfg, wkMain, wkW, wkEnq, wkCh, wkOut, wkClosed, wkDirWg, wkWg,
                   wkIno, wkFs, wkCloser, wkHarv, wkEmitted, nonWkVars>>

\* WalkFunc, the collecting goroutine: d.errch is closed and drained
HarvDone ==
    /\ wkHarv = "run"
    /\ wkErrch = <<>>
    /\ "errch" \in wkClosed
    /\ wkHarv' = "done"
    /\ UNCHANGED <<wkCfg, wkMain, wkW, wkEnq, wkCh, wkOut, wkErrch, wkClosed, wkDirWg,
                   wkWg, wkIno, wkFs, wkCloser, wkEmitted, nonWkVars>>

\* WalkFunc after doWalk: d.dirWg.Wait(); close(d.ch); close(d.errch);
\* then errWg.Wait(); then d.wg.Wait() and return
FuncStep ==
    /\ wkMain.pc \in {"dirwait", "errwait", "wgwait"}
    /\ CASE wkMain.pc = "dirwait" ->
              /\ wkDirWg = 0
              /\ wkClosed' = {"ch", "errch"}
              /\ wkMain' = [wkMain EXCEPT !.pc = "errwait"]
         [] wkMain.pc = "errwait" ->
              /\ wkHarv = "done"
              /\ wkMain' = [wkMain EXCEPT !.pc = "wgwait"]
              /\ UNCHANGED wkClosed
         [] OTHER ->
              /\ wkWg = 0
              /\ wkMain' = [wkMain EXCEPT !.pc = "returned"]
              /\ UNCHANGED wkClosed
    /\ UNCHANGED <<wkCfg, wkW, wkEnq, wkCh, wkOut, wkErrch, wkDirWg, wkWg, wkIno, wkFs,
                   wkCloser, wkHarv, wkEmitted, nonWkVars>>

WkNext ==
    \/ DoWalkEntry
    \/ DoWalkSend
    \/ DoWalkEnq
    \/ \E k \in DOMAIN wkEnq : EnqSend(k)
    \/ \E w \in DOMAIN wkW : WkRecv(w)
    \/ \E w \in DOMAIN wkW : WkEntry(w)
    \/ \E w \in DOMAIN wkW : WkSend(w)
    \/ \E w \in DOMAIN wkW : WkFinish(w)
    \/ \E w \in DOMAIN wkW : WkExit(w)
    \/ CloserClose
    \/ CloserDone
    \/ DrainOut
    \/ DrainErr
    \/ HarvDone
    \/ FuncStep

(***************************************************************************)
(*                      Diff: cmp.Diff, doDiff                             *)
(*                                                                         *)
(* Two passes, each with a work pool of its own: lhsDiff on every name of  *)
(* lhs, then, after Wait of the first pool, rhsDiff on every name of rhs.  *)
(***************************************************************************)
nonDfVars == <<sfVars, wpVars, trVars, wkVars, extVars>>

\* the maps of the Difference
DiffMaps == {"LeftDirs", "LeftFiles", "RightDirs", "RightFiles",
             "CommonDirs", "CommonFiles", "Diff", "Funny"}

NoMaps == [c \in DiffMaps \cup {"done"} |-> {}]

\* a file of another size than the files of lhs
BigFile(n) == [DstFile(n, 1) EXCEPT !.size = 2]

\* a file like the files of lhs but with the setuid bit
SetuidFile(n) == [DstFile(n, 1) EXCEPT !.perm = 4 + @]

\* what the two maps can hold under a name
LhsInfos(n) == {NoEnt, SrcFile(1), SrcDir(n)}
RhsInfos(n) == {NoEnt, DstFile(n, 1), DstFile(n, 2), BigFile(n), SetuidFile(n), DstDir(n, 1)}

\* the names a map holds
Keys(m) == {n \in Names : Exists(m[n])}

\* lhsDiff(nm, lhs): the stores into the result maps and c.done
lhsStore(m, nm, l, r) ==
    LET c == lhsDiff(l, r) IN
    [m EXCEPT ![c] = @ \cup {nm},
              !["done"] = IF c \in {"Diff", "CommonDirs", "CommonFiles"} THEN @ \cup {nm} ELSE @]

\* an rhsDiff that looks at neither c.done nor c.funny
NotHandled(m, nm) == FALSE

\* rhsDiff: c.done.Load(nm) or c.funny.Load(nm) finds the name
Handled(m, nm) == nm \in m["done"] \/ nm \in m["Funny"]

\* rhsDiff(nm, rhs)
rhsStore(m, nm, r) ==
    IF Handled(m, nm) THEN m ELSE [m EXCEPT ![rhsDiff(r)] = @ \cup {nm}]

DiffIdle ==
    /\ dfIn = [lhs |-> [n \in Names |-> NoEnt], rhs |-> [n \in Names |-> NoEnt], conc |-> 0]
    /\ dfPc = "idle"
    /\ dfTodo = {}
    /\ dfPool = NoPool
    /\ dfMap = NoMaps

\* Diff(lhs, rhs) with the default options (Concurrency: runtime.NumCPU())
\* up to the first pool of doDiff
DfInit ==
    /\ dfIn \in [lhs : {m \in [Names -> UNION {LhsInfos(n) : n \in Names}] :
                          \A n \in Names : m[n] \in LhsInfos(n)},
                 rhs : {m \in [Names -> UNION {RhsInfos(n) : n \in Names}] :
                          \A n \in Names : m[n] \in RhsInfos(n)},
                 conc : {NumCPU}]
    /\ dfPc = "lhs"
    /\ dfTodo = Keys(dfIn.lhs)
    /\ dfPool = NewWorkPool(dfIn.conc, NumCPU)
    /\ dfMap = NoMaps

\* c.lhs.Range / c.rhs.Range hands the next name, in no fixed order, to
\* wp.Submit
DfSubmit(n) ==
    /\ dfPc \in {"lhs", "rhs"}
    /\ n \in dfTodo
    /\ CanSubmit(dfPool)
    /\ dfPool' = DoSubmit(dfPool, [side |-> dfPc, nm |-> n])
    /\ dfTodo' = dfTodo \ {n}
    /\ UNCHANGED <<dfIn, dfPc, dfMap, nonDfVars>>

\* Range is over: wp.Close() and the call of wp.Wait()
DfClose ==
    /\ dfPc \in {"lhs", "rhs"}
    /\ dfTodo = {}
    /\ dfPool' = DoWaitCall(DoClose(dfPool))
    /\ dfPc' = IF dfPc = "lhs" THEN "lhsw" ELSE "rhsw"
    /\ UNCHANGED <<dfIn, dfTodo, dfMap, nonDfVars>>

\* wp.Wait() returns: after the first pass the pool of the second is made,
\* after the second doDiff returns, and cmpInternal builds the Difference
\* and empties c.done
DfReturn ==
    /\ dfPc \in {"lhsw", "rhsw"}
    /\ CanWaitReturn(dfPool)
    /\ IF dfPc = "lhsw"
       THEN /\ dfPc' = "rhs"
            /\ dfPool' = NewWorkPool(dfIn.conc, NumCPU)
            /\ dfTodo' = Keys(dfIn.rhs)
            /\ UNCHANGED dfMap
       ELSE /\ dfPc' = "done"
            /\ dfPool' = DoWaitReturn(dfPool)
            /\ dfMap' = [dfMap EXCEPT !["done"] = {}]
            /\ UNCHANGED dfTodo
    /\ UNCHANGED <<dfIn, nonDfVars>>

DfRecv(w) ==
    /\ CanRecv(dfPool, w)
    /\ dfPool' = DoRecv(dfPool, w)
    /\ UNCHANGED <<dfIn, dfPc, dfTodo, dfMap, nonDfVars>>

DfExit(w) ==
    /\ CanExit(dfPool, w)
    /\ dfPool' = DoExit(dfPool, w)
    /\ UNCHANGED <<dfIn, dfPc, dfTodo, dfMap, nonDfVars>>

\* the work function of the pass: c.lhsDiff(w.nm, w.fi) or
\* c.rhsDiff(w.nm, w.fi); it returns nil
DfWork(w) ==
    /\ CanRun(dfPool, w)
    /\ LET it == dfPool.w[w].item IN
       dfMap' = IF it.side = "lhs"
                THEN lhsStore(dfMap, it.nm, dfIn.lhs[it.nm], dfIn.rhs[it.nm])
                ELSE rhsStore(dfMap, it.nm, dfIn.rhs[it.nm])
    /\ dfPool' = DoRan(dfPool, w, [k |-> "nil"])
    /\ UNCHANGED <<dfIn, dfPc, dfTodo, nonDfVars>>

\* Wait(): the workers are done, the error channel is closed
DfWaitWorkers ==
    /\ CanWaitWorkers(dfPool)
    /\ dfPool' = DoWaitWorkers(dfPool)
    /\ UNCHANGED <<dfIn, dfPc, dfTodo, dfMap, nonDfVars>>

\* the harvester of the pool finds the error channel closed
DfHarvestDone ==
    /\ CanHarvestDone(dfPool)
    /\ dfPool' = DoHarvestDone(dfPool)
    /\ UNCHANGED <<dfIn, dfPc, dfTodo, dfMap, nonDfVars>>

DfNext ==
    \/ \E n \in Names : DfSubmit(n)
    \/ DfClose
    \/ DfReturn
    \/ \E w \in DOMAIN dfPool.w : DfRecv(w)
    \/ \E w \in DOMAIN dfPool.w : DfExit(w)
    \/ \E w \in DOMAIN dfPool.w : DfWork(w)
    \/ DfWaitWorkers
    \/ DfHarvestDone

(***************************************************************************)
(*          Single calls: makeEqFunc and lhsDiff with options,             *)
(*          Xattr.Equal                                                    *)
(***************************************************************************)
nonFnVars == <<sfVars, wpVars, trVars, wkVars, dfVars, cpVars, nsVars>>

\* Xattr, a map from keys to values
XKeys == {"a", "b"}
XVals == {1, 2}
Xattrs == UNION {[K -> XVals] : K \in SUBSET XKeys}
NoXattr == [k \in {} |-> 1]

\* an Equal that also looks for the keys only y has
SameMap(x, y) == DOMAIN x = DOMAIN y /\ \A k \in DOMAIN x : x[k] = y[k]

\* Xattr.Equal(y): the first loop goes over the keys of x, marks each in
\* done and looks it up in y; the second loop goes over the keys of x again
\* and looks each up in done
XattrEqual(x, y) ==
    LET done == DOMAIN x IN
    /\ \A k \in DOMAIN x : k \in DOMAIN y /\ x[k] = y[k]
    /\ \A k \in DOMAIN x : k \in done

\* the attributes WithIgnoreAttr can switch off
IgnFlags == {"uid", "gid", "xattr"}

\* cmpopt: ignoreAttr and deepEq.  deep: "nil" when no function is given,
\* else what the function answers for the pair.
CmpOpts == [ign : SUBSET IgnFlags, deep : {"nil", "eq", "ne"}]

\* one comparator of the chain on the pair
EqStep(c, opt, l, r) ==
    CASE c = "mtime" -> l.t = "link" \/ l.mtime = r.mtime
      [] c = "uid" -> l.uid = r.uid
      [] c = "gid" -> l.gid = r.gid
      [] c = "xattr" -> XattrEqual(l.xattr, r.xattr)
      [] OTHER -> opt.deep = "eq"

\* a chain that calls deepEq first
DeepFirst(opt) ==
    (IF opt.deep # "nil" THEN <<"custom">> ELSE <<>>)
    \o <<"mtime">>
    \o (IF "uid" \notin opt.ign THEN <<"uid">> ELSE <<>>)
    \o (IF "gid" \notin opt.ign THEN <<"gid">> ELSE <<>>)
    \o (IF "xattr" \notin opt.ign THEN <<"xattr">> ELSE <<>>)

\* makeEqFunc: the comparators appended to eqv, in order
EqChain(opt) ==
    <<"mtime">>
    \o (IF "uid" \notin opt.ign THEN <<"uid">> ELSE <<>>)
    \o (IF "gid" \notin opt.ign THEN <<"gid">> ELSE <<>>)
    \o (IF "xattr" \notin opt.ign THEN <<"xattr">> ELSE <<>>)
    \o (IF opt.deep # "nil" THEN <<"custom">> ELSE <<>>)

\* the function makeEqFunc returns: each comparator in turn until one says
\* no.  [eq, why, deep]: deep counts the calls of deepEq.
RECURSIVE RunChain(_, _, _, _, _)
RunChain(q, opt, l, r, deep) ==
    IF q = <<>> THEN [eq |-> TRUE, why |-> "", deep |-> deep]
    ELSE LET d == IF Head(q) = "custom" THEN deep + 1 ELSE deep IN
         IF EqStep(Head(q), opt, l, r) THEN RunChain(Tail(q), opt, l, r, d)
         ELSE [eq |-> FALSE, why |-> Head(q), deep |-> d]

makeEqFunc(opt, l, r) == RunChain(EqChain(opt), opt, l, r, 0)

\* lhsDiff for a pair of one type under the options: [class, why, deep]
lhsDiffOpt(opt, l, r) ==
    IF l.t = "file" /\ l.size # r.size THEN [class |-> "Diff", why |-> "size", deep |-> 0]
    ELSE LET e == makeEqFunc(opt, l, r) IN
         [class |-> IF ~e.eq THEN "Diff"
                    ELSE IF l.t = "dir" THEN "CommonDirs" ELSE "CommonFiles",
          why |-> e.why, deep |-> e.deep]

\* the fio.Info of the pairs compared: lhs with one owner, size and mtime,
\* rhs with any; both of the same type
LhsCmpInfos ==
    [t : {"file", "dir", "link"}, size : {1}, mtime : {1}, uid : {1}, gid : {1},
     xattr : {x \in Xattrs : DOMAIN x \subseteq {"a"}}]
RhsCmpInfos ==
    [t : {"file", "dir", "link"}, size : {1, 2}, mtime : {1, 2}, uid : {1, 2}, gid : {1, 2},
     xattr : {x \in Xattrs : DOMAIN x \subseteq {"a"}}]

FnIdle ==
    /\ fnIn = [f |-> "none"]
    /\ fnOut = [pc |-> "idle"]


(***************************************************************************)
(*        CopyFd: reflink, copy_file_range in chunks, copy via mmap        *)
(***************************************************************************)
nonCpVars == <<sfVars, wpVars, trVars, wkVars, dfVars, fnVars, nsVars>>

\* unix.CopyFileRange(s, &roff, d, &woff, n, 0) that transfers m bytes: the
\* bytes go from offset roff of the source to offset woff of the
\* destination, and the kernel moves both offsets on by m
CopyFileRange(src, dst, roff, woff, m) ==
    [dst |-> PutAt(dst, woff, SubSeq(src, roff + 1, roff + m)),
     roff |-> roff + m,
     woff |-> woff + m]

\* how many bytes a transfer of at most n bytes at offset roff can move: any
\* number from 1 up to what is asked for and left, none at or past the end
Transfers(src, roff, n) ==
    IF roff >= Len(src) THEN {0} ELSE 1..Min(n, Len(src) - roff)

CpIdle ==
    /\ cpIn = [src |-> <<>>, prior |-> <<>>, tier |-> "none", fail |-> 0]
    /\ cpDst = <<>>
    /\ cpS = [pc |-> "idle", sz |-> 0, roff |-> 0, woff |-> 0, calls |-> 0, res |-> "none"]
    /\ cpHist = <<>>

\* CopyFd(dst, src): dst is open at offset 0 and holds prior; tier is what
\* the system offers: "reflink" the ioctl works, "range" it is not supported
\* on the same file system, "mmap" the files are on two file systems; fail
\* is the number of the system call that fails (0: none does).
CpInit ==
    /\ cpIn \in [src : Data(0, MaxFileLen), prior : Data(0, MaxFileLen),
                  tier : {"reflink", "range", "mmap"}, fail : 0..2]
    /\ cpDst = cpIn.prior
    /\ cpS = [pc |-> "start", sz |-> 0, roff |-> 0, woff |-> 0, calls |-> 0, res |-> "none"]
    /\ cpHist = <<>>

\* copyFile: IsSameFS chooses sysCopyFd or copyViaMmap; sysCopyFd begins
\* with unix.IoctlFileClone and, when that is not supported, src.Stat()
CpClone ==
    /\ cpS.pc = "start"
    /\ CASE cpIn.tier = "mmap" ->
              /\ cpS' = [cpS EXCEPT !.pc = "mmap"]
              /\ UNCHANGED cpDst
         [] cpIn.tier = "reflink" /\ cpIn.fail = 1 ->
              /\ cpS' = [cpS EXCEPT !.pc = "done", !.res = "clone", !.calls = 1]
              /\ UNCHANGED cpDst
         [] cpIn.tier = "reflink" ->
              /\ cpS' = [cpS EXCEPT !.pc = "done", !.res = "nil", !.calls = 1]
              /\ cpDst' = PutAt(cpDst, 0, cpIn.src)
         [] OTHER ->
              /\ cpS' = [cpS EXCEPT !.pc = "range", !.sz = Len(cpIn.src)]
              /\ UNCHANGED cpDst
    /\ UNCHANGED <<cpIn, cpHist, nonCpVars>>

\* sysCopyFd, one turn of the loop: n := min(_ioChunkSize, sz), the system
\* call, then sz -= m, roff += m, woff += m
CpRange(m) ==
    /\ cpS.pc = "range"
    /\ cpS.sz > 0
    /\ IF cpIn.fail = cpS.calls + 1
       THEN /\ m = 0
            /\ cpS' = [cpS EXCEPT !.pc = "done", !.res = "copy_file_range", !.calls = @ + 1]
            /\ UNCHANGED <<cpDst, cpHist>>
       ELSE /\ m \in Transfers(cpIn.src, cpS.roff, Min(ChunkSize, cpS.sz))
            /\ LET k == CopyFileRange(cpIn.src, cpDst, cpS.roff, cpS.woff, m) IN
               /\ cpDst' = k.dst
               /\ cpHist' = Append(cpHist, [roff |-> cpS.roff, woff |-> cpS.woff, m |-> m,
                                            before |-> Len(cpIn.src) - cpS.sz])
               /\ cpS' = IF m = 0
                         THEN [cpS EXCEPT !.pc = "done", !.res = "zero sized transfer",
                                          !.calls = @ + 1]
                         ELSE [cpS EXCEPT !.sz = @ - m, !.roff = k.roff + m,
                                          !.woff = k.woff + m, !.calls = @ + 1]
    /\ UNCHANGED <<cpIn, nonCpVars>>

\* sysCopyFd after the loop: dst.Seek(0, os.SEEK_SET), return nil
CpRangeEnd ==
    /\ cpS.pc = "range"
    /\ cpS.sz <= 0
    /\ cpS' = [cpS EXCEPT !.pc = "done", !.res = "nil"]
    /\ UNCHANGED <<cpIn, cpDst, cpHist, nonCpVars>>

\* copyViaMmap: mmap.Reader hands the source, block after block, to
\* fullWrite(dst, b), which writes at the file offset of dst; then
\* dst.Seek(0, os.SEEK_SET).  A failing write leaves k of the block's bytes.
CpMmap(k) ==
    /\ cpS.pc = "mmap"
    /\ LET b == SubSeq(cpIn.src, cpS.woff + 1, Min(Len(cpIn.src), cpS.woff + ChunkSize)) IN
       IF b = <<>>
       THEN /\ k = 0
            /\ cpS' = [cpS EXCEPT !.pc = "done", !.res = "nil"]
            /\ UNCHANGED cpDst
       ELSE IF cpIn.fail = cpS.calls + 1
       THEN /\ k < Len(b)
            /\ cpDst' = PutAt(cpDst, cpS.woff, Prefix(b, k))
            /\ cpS' = [cpS EXCEPT !.pc = "done", !.res = "mmap-reader", !.calls = @ + 1]
       ELSE /\ k = Len(b)
            /\ cpDst' = PutAt(cpDst, cpS.woff, b)
            /\ cpS' = [cpS EXCEPT !.woff = @ + Len(b), !.calls = @ + 1]
    /\ UNCHANGED <<cpIn, cpHist, nonCpVars>>

CpNext ==
    \/ CpClone
    \/ \E m \in 0..ChunkSize : CpRange(m)
    \/ CpRangeEnd
    \/ \E k \in 0..ChunkSize : CpMmap(k)

\* the function f on the keys K only
Restrict(f, K) == [k \in K |-> f[k]]

\* clear(nm, list, del) on a path whose attributes are old: list fails, or
\* the del of the key fkey fails after the keys of part are gone, or every fkey goes
clear(old, fail, fkey, part) ==
    IF fail = "list" THEN [attrs |-> old, err |-> "list"]
    ELSE IF fail = "del" /\ fkey \in DOMAIN old
    THEN [attrs |-> Restrict(old, DOMAIN old \ (part \ {fkey})), err |-> "del"]
    ELSE [attrs |-> NoXattr, err |-> "nil"]

\* repl(nm, x, list, del, set): clear, and when clear fails return nil;
\* then set every fkey of x, in the order of the map; the set of the key fkey fails
\* after the keys of part are set
repl(old, x, fail, fkey, part) ==
    LET c == clear(old, fail, fkey, part) IN
    IF c.err # "nil" THEN [attrs |-> c.attrs, err |-> "nil"]
    ELSE IF fail = "set" /\ fkey \in DOMAIN x
    THEN [attrs |-> Restrict(x, (DOMAIN x \cap part) \ {fkey}), err |-> "set"]
    ELSE [attrs |-> x, err |-> "nil"]

(***************************************************************************)
(*                 Info.MarshalTo and Info.Unmarshal                       *)
(***************************************************************************)
Take(b, n) == SubSeq(b, 1, n)
Drop(b, n) == SubSeq(b, n + 1, Len(b))

\* binary.BigEndian.PutUint32 and Uint32
enc32(n) == <<(n \div 16777216) % 256, (n \div 65536) % 256, (n \div 256) % 256, n % 256>>
dec32(b) == ((b[1] * 256 + b[2]) * 256 + b[3]) * 256 + b[4]

\* binary.BigEndian.PutUint64 and Uint64, for numbers below W64
enc64(n) == <<0, 0, 0, 0>> \o enc32(n)
dec64(b) == dec32(Drop(b, 4))

\* uint64(n) of an int64
Uint64(n) == n % W64

\* enctime: uint64(t.Unix()) * uint64(time.Second) + uint64(t.Nanosecond())
enctime(t) == enc64((Uint64(t.sec) * Second + t.nsec) % W64)

\* dectime: time.Unix(val / time.Second, val % time.Second)
dectime(b) == [sec |-> dec64(b) \div Second, nsec |-> dec64(b) % Second]

\* encstr: the length, then the bytes
encstr(str) == enc32(Len(str)) \o str

\* decstr: [b, s, err]
decstr(b) ==
    IF Len(b) < 4 THEN [b |-> <<>>, s |-> <<>>, err |-> "ErrTooSmall"]
    ELSE LET n == dec32(b) IN
         IF n <= Len(b) - 4
         THEN [b |-> Drop(b, 4 + n), s |-> SubSeq(b, 5, 4 + n), err |-> "nil"]
         ELSE [b |-> <<>>, s |-> <<>>, err |-> "ErrTooSmall"]

\* the sum of f over the set S
RECURSIVE Sum(_, _)
Sum(f, S) == IF S = {} THEN 0 ELSE LET k == CHOOSE k \in S : TRUE IN f[k] + Sum(f, S \ {k})

\* xattrlen
xattrlen(x) == 4 + Sum([k \in DOMAIN x |-> 8 + Len(k) + Len(x[k])], DOMAIN x)

\* the orders in which "for k, v := range x" can give the keys of the map x:
\* every one, the order of a map is not fixed
RangeOrders(x) ==
    {o \in [1..Cardinality(DOMAIN x) -> DOMAIN x] :
        \A i, j \in DOMAIN o : i # j => o[i] # o[j]}

\* the key-value pairs of encxattr, the keys coming in the order ord
RECURSIVE encpairs(_, _)
encpairs(x, ord) ==
    IF ord = <<>> THEN <<>>
    ELSE LET k == Head(ord) IN
         enc32(Len(k)) \o enc32(Len(x[k])) \o k \o x[k] \o encpairs(x, Tail(ord))

\* encxattr: the length of the pairs, then the pairs
encxattr(x, ord) == enc32(Len(encpairs(x, ord))) \o encpairs(x, ord)

\* the loop of decxattr: z bytes of pairs are left in b; an error gives the
\* nil map, not the pairs read so far
RECURSIVE decpairs(_, _, _)
decpairs(b, z, x) ==
    IF z <= 0 THEN [x |-> x, err |-> "nil"]
    ELSE IF Len(b) < 8 THEN [x |-> NoXattr, err |-> "ErrTooSmall"]
    ELSE LET kl == dec32(b)
             vl == dec32(Drop(b, 4))
             c == Drop(b, 8)
         IN IF Len(c) < kl \/ Len(c) - kl < vl THEN [x |-> NoXattr, err |-> "ErrTooSmall"]
            ELSE LET k == Take(c, kl)
                     v == SubSeq(c, kl + 1, kl + vl)
                 IN decpairs(Drop(c, kl + vl), z - 8 - kl - vl,
                             [j \in DOMAIN x \cup {k} |-> IF j = k THEN v ELSE x[j]])

\* decxattr: [x, err]; the nil map and the map without keys are both the
\* function without arguments
decxattr(b) ==
    IF Len(b) < 4 THEN [x |-> NoXattr, err |-> "ErrTooSmall"]
    ELSE IF Len(b) - 4 < dec32(b) THEN [x |-> NoXattr, err |-> "ErrTooSmall"]
    ELSE decpairs(Drop(b, 4), dec32(b), NoXattr)

\* Info.MarshalSize
MarshalSize(ii) == (Len(ii.nam) + 4) + xattrlen(ii.xattr) + (3 * 12) + ((4 * 4) + (4 * 8)) + 4

\* the bytes MarshalTo encodes, one field after the other, when the
\* attributes come in the order ord
Marshaled(ii, ord) ==
    enc32(MarshalSize(ii) - 4)
    \o enc64(ii.ino) \o enc64(ii.siz) \o enc64(ii.dev) \o enc64(ii.rdev)
    \o enc32(ii.mod) \o enc32(ii.uid) \o enc32(ii.gid) \o enc32(ii.nlink)
    \o enctime(ii.atim) \o enctime(ii.mtim) \o enctime(ii.ctim)
    \o encstr(ii.nam) \o encxattr(ii.xattr, ord)

\* Info.MarshalTo(b): [n, b, err]; the encoded bytes replace the first bytes
\* of b and n is MarshalSize
MarshalTo(ii, b, ord) ==
    IF Len(b) < MarshalSize(ii) THEN [n |-> 0, b |-> b, err |-> "ErrTooSmall"]
    ELSE [n |-> MarshalSize(ii), b |-> PutAt(b, 0, Marshaled(ii, ord)), err |-> "nil"]

_FixedEncodingSize == 1 + (3 * 8) + (4 * 4) + (4 * 8)

NoInfo ==
    [nam |-> <<>>, ino |-> 0, siz |-> 0, dev |-> 0, rdev |-> 0, mod |-> 0, uid |-> 0,
     gid |-> 0, nlink |-> 0, atim |-> [sec |-> 0, nsec |-> 0],
     mtim |-> [sec |-> 0, nsec |-> 0], ctim |-> [sec |-> 0, nsec |-> 0], xattr |-> <<>>]

\* ii.Unmarshal(b): [n, ii, err], ii the receiver afterwards.  The fields
\* are stored in the receiver one after the other as they are decoded, so a
\* failure of decstr or decxattr leaves the fields decoded before it in ii.
Unmarshal(ii, b) ==
    IF Len(b) < 4 THEN [n |-> 0, ii |-> ii, err |-> "ErrTooSmall"]
    ELSE LET z == dec32(b)
             c == Drop(b, 4)
         IN
         IF Len(c) < z \/ z < _FixedEncodingSize
         THEN [n |-> 0, ii |-> ii, err |-> "ErrTooSmall"]
         ELSE LET nm == decstr(Drop(c, 72))
                  xa == decxattr(nm.b)
                  fixed == [ii EXCEPT
                            !.ino = dec64(c), !.siz = dec64(Drop(c, 8)),
                            !.dev = dec64(Drop(c, 16)), !.rdev = dec64(Drop(c, 24)),
                            !.mod = dec32(Drop(c, 32)), !.uid = dec32(Drop(c, 36)),
                            !.gid = dec32(Drop(c, 40)), !.nlink = dec32(Drop(c, 44)),
                            !.atim = dectime(Drop(c, 48)), !.mtim = dectime(Drop(c, 56)),
                            !.ctim = dectime(Drop(c, 64)), !.nam = nm.s]
              IN
              IF nm.err # "nil" THEN [n |-> 0, ii |-> fixed, err |-> nm.err]
              ELSE IF xa.err # "nil"
              THEN [n |-> 0, ii |-> [fixed EXCEPT !.xattr = xa.x], err |-> xa.err]
              ELSE [n |-> z + 4, ii |-> [fixed EXCEPT !.xattr = xa.x], err |-> "nil"]

\* names, and keys and values of attributes, as bytes
MStrings == {<<>>, <<97>>, <<97, 98>>}
MXattrs == UNION {[K -> {<<>>, <<49>>}] : K \in SUBSET {<<107>>, <<107, 50>>}}
\* times: a second before 1970, 1970, and later
MTimes == [sec : {-1, 0, 2}, nsec : {0, Second - 1}]

\* an Info with other fields than those of MInfos, to unmarshal into
UsedInfo ==
    [nam |-> <<122>>, ino |-> 7, siz |-> 7, dev |-> 7, rdev |-> 7, mod |-> 7, uid |-> 7,
     gid |-> 7, nlink |-> 7, atim |-> [sec |-> 7, nsec |-> 7],
     mtim |-> [sec |-> 7, nsec |-> 7], ctim |-> [sec |-> 7, nsec |-> 7],
     xattr |-> [k \in {<<122>>} |-> <<122>>]]

\* the Infos to marshal
MInfos ==
    [nam : MStrings, ino : {42}, siz : {0, 1000}, dev : {1}, rdev : {0}, mod : {420, 134218157},
     uid : {1000}, gid : {1000}, nlink : {1},
     atim : {[sec |-> 2, nsec |-> 1]}, mtim : MTimes, ctim : {[sec |-> 1, nsec |-> 0]},
     xattr : MXattrs]

\* the strings a symlink can hold
LinkTargets == {"./t", "/u"}

\* clone.File(dst, src) on a symlink src that holds targ.  srcTo is what src
\* leads to ("none": nothing, the link dangles), dstTo what the same string
\* leads to from the place of dst, dstThere whether dst exists already.
\* Lstat; os.Open(src), which follows the link; clonelink: Readlink and
\* Symlink; updateMeta: LreplaceXattr, Lchown, then os.Chmod(dst), which
\* follows the new link, then the times.  link is what dst holds at the end
\* ("" when dst is no new link), chmod whether the mode of the entry the
\* link leads to was set.
FileSymlink(targ, srcTo, dstTo, dstThere) ==
    IF srcTo = "none" THEN [err |-> "open-src", link |-> "", chmod |-> FALSE]
    ELSE IF dstThere THEN [err |-> "clonelink", link |-> "", chmod |-> FALSE]
    ELSE IF dstTo = "none" THEN [err |-> "md-update", link |-> targ, chmod |-> FALSE]
    ELSE [err |-> "nil", link |-> targ, chmod |-> TRUE]

FnInit ==
    /\ \/ /\ fnIn \in [f : {"lhsDiff"}, opt : CmpOpts, l : LhsCmpInfos, r : RhsCmpInfos]
          /\ fnIn.l.t = fnIn.r.t
       \/ fnIn \in [f : {"Equal"}, x : Xattrs, y : Xattrs]
       \/ fnIn \in [f : {"repl"}, old : Xattrs, x : Xattrs,
                     fail : {"none", "list", "del", "set"}, key : XKeys, part : SUBSET XKeys]
       \/ /\ fnIn \in [f : {"File"}, targ : LinkTargets, srcTo : {"file", "dir", "none"},
                        dstTo : {"file", "dir", "none"}, dstThere : BOOLEAN]
          \* an absolute path leads to the same entry from everywhere
          /\ fnIn.targ = "/u" => fnIn.srcTo = fnIn.dstTo
       \/ fnIn \in [f : {"Marshal"}, x : MInfos, fill : {0, 255}, room : 0..1]
       \* the bytes of an Info, one byte after the fixed fields replaced
       \/ \E x \in MInfos :
            /\ x.siz = 0 /\ x.mod = 420 /\ x.mtim = [sec |-> 0, nsec |-> 0]
            /\ fnIn \in [f : {"Unmarshal"}, x : {x}, val : {0, 100},
                          at : 77..Len(Marshaled(x, CHOOSE o \in RangeOrders(x.xattr) : TRUE))]
    /\ fnOut = [pc |-> "call"]

\* lhsDiff on a pair of one type, with the comparator the options make
CallLhsDiff ==
    /\ fnIn.f = "lhsDiff"
    /\ fnOut.pc = "call"
    /\ fnOut' = [pc |-> "done", v |-> lhsDiffOpt(fnIn.opt, fnIn.l, fnIn.r)]
    /\ UNCHANGED <<fnIn, nonFnVars>>

\* x.Equal(y)
CallEqual ==
    /\ fnIn.f = "Equal"
    /\ fnOut.pc = "call"
    /\ fnOut' = [pc |-> "done", v |-> XattrEqual(fnIn.x, fnIn.y)]
    /\ UNCHANGED <<fnIn, nonFnVars>>

\* ReplaceXattr(nm, x) or LreplaceXattr(nm, x)
CallRepl ==
    /\ fnIn.f = "repl"
    /\ fnOut.pc = "call"
    /\ fnOut' = [pc |-> "done",
                 v |-> repl(fnIn.old, fnIn.x, fnIn.fail, fnIn.key, fnIn.part)]
    /\ UNCHANGED <<fnIn, nonFnVars>>

\* clone.File(dst, src) on a symlink
CallFile ==
    /\ fnIn.f = "File"
    /\ fnOut.pc = "call"
    /\ fnOut' = [pc |-> "done",
                 v |-> FileSymlink(fnIn.targ, fnIn.srcTo, fnIn.dstTo, fnIn.dstThere)]
    /\ UNCHANGED <<fnIn, nonFnVars>>

\* x.MarshalTo(buf), then Unmarshal(buf[:n]) into a new Info; buf has room for
\* MarshalSize bytes and room more, and holds the byte fill everywhere
CallMarshal ==
    /\ fnIn.f = "Marshal"
    /\ fnOut.pc = "call"
    /\ \E ord \in RangeOrders(fnIn.x.xattr) :
         LET buf == [i \in 1..(MarshalSize(fnIn.x) + fnIn.room) |-> fnIn.fill]
             m == MarshalTo(fnIn.x, buf, ord)
         IN fnOut' = [pc |-> "done",
                      v |-> [m |-> m, wrote |-> Len(Marshaled(fnIn.x, ord)),
                             u |-> Unmarshal(NoInfo, Take(m.b, m.n))]]
    /\ UNCHANGED <<fnIn, nonFnVars>>

\* x.MarshalTo(buf) with a buf of MarshalSize bytes, the byte at replaced by
\* val, then Unmarshal(buf) into a used Info
CallUnmarshal ==
    /\ fnIn.f = "Unmarshal"
    /\ fnOut.pc = "call"
    /\ \E ord \in RangeOrders(fnIn.x.xattr) :
         LET buf == [i \in 1..MarshalSize(fnIn.x) |-> 0]
             b == [MarshalTo(fnIn.x, buf, ord).b EXCEPT ![fnIn.at] = fnIn.val]
         IN fnOut' = [pc |-> "done", v |-> [b |-> b, u |-> Unmarshal(UsedInfo, b)]]
    /\ UNCHANGED <<fnIn, nonFnVars>>

FnNext ==
    \/ CallMarshal
    \/ CallUnmarshal
    \/ CallLhsDiff
    \/ CallEqual
    \/ CallRepl
    \/ CallFile

(***************************************************************************)
(*       Stages 1 and 2 of Tree on a destination with nested names         *)
(*                                                                         *)
(* Stage 1 makes the directories of LeftDirs, stage 2 runs the deletes for *)
(* the entries of RightFiles and RightDirs; each with a work pool.  A      *)
(* delete is os.RemoveAll of fi.Name(), the last element of the path of    *)
(* the entry, which the system looks up in the working directory of the    *)
(* process; the working directory is none of the roots and holds files     *)
(* only.                                                                   *)
(***************************************************************************)
nonNsVars == <<sfVars, wpVars, trVars, wkVars, dfVars, fnVars, cpVars>>

\* the names, sorted as slices.Sort does; "a/f" is a file, the others are
\* directories
NsOrder == <<"a", "a/b", "a/b/c", "a/f">>
NsNames == {NsOrder[i] : i \in DOMAIN NsOrder}
NsDirs == NsNames \ {"a/f"}
NsIdx(n) == CHOOSE i \in DOMAIN NsOrder : NsOrder[i] = n

\* fio.Info.Name(): filepath.Base of the path
NsBase(n) ==
    CASE n = "a" -> "a" [] n = "a/b" -> "b" [] n = "a/b/c" -> "c" [] OTHER -> "f"

\* filepath.Dir
NsParent(n) ==
    CASE n = "a" -> "." [] n = "a/b" -> "a" [] n = "a/b/c" -> "a/b" [] OTHER -> "a"

\* m lies beneath n
RECURSIVE NsUnder(_, _)
NsUnder(n, m) == m # "." /\ (NsParent(m) = n \/ NsUnder(n, NsParent(m)))

\* n and what lies beneath it
NsTree(n) == {n} \cup {m \in NsNames : NsUnder(n, m)}

\* every name of S has its parent in S
NsClosed(S) == \A n \in S : NsParent(n) = "." \/ NsParent(n) \in S

NsIdle ==
    /\ nsIn = [stage |-> 0, had |-> {}, set |-> {}, deny |-> "none", cwd |-> {}]
    /\ nsDst = {}
    /\ nsOwn = [n \in NsNames |-> "todo"]
    /\ nsPool = NoPool
    /\ nsTodo = {}
    /\ nsPc = "idle"
    /\ nsTouched = {}

\* stage 1: had is what the destination holds, set is LeftDirs, directories
\* the destination lacks, each with its parent in the destination or in
\* LeftDirs; deny is a source directory that is gone when File looks at it.
\* stage 2: set is RightFiles and RightDirs, entries of the destination that
\* the source lacks, with all that lies beneath them; cwd is the entries of
\* set whose base name is the name of a file in the working directory; deny
\* is one of them whose file cannot be removed (EACCES).
NsInit ==
    /\ nsIn \in [stage : {1, 2}, had : SUBSET NsNames, set : SUBSET NsNames,
                 deny : NsNames \cup {"none"}, cwd : SUBSET NsNames]
    /\ nsIn.set # {}
    /\ nsIn.deny \in nsIn.set \cup {"none"}
    /\ NsClosed(nsIn.had)
    /\ nsIn.cwd \subseteq nsIn.set
    /\ nsIn.stage = 1 =>
          /\ nsIn.cwd = {}
          /\ nsIn.set \subseteq NsDirs
          /\ nsIn.set \cap nsIn.had = {}
          /\ NsClosed(nsIn.had \cup nsIn.set)
    /\ nsIn.stage = 2 =>
          /\ nsIn.deny \in nsIn.cwd \cup {"none"}
          /\ nsIn.set \subseteq nsIn.had
          /\ \A n \in nsIn.set : NsTree(n) \cap nsIn.had \subseteq nsIn.set
    /\ nsDst = nsIn.had
    /\ nsOwn = [n \in NsNames |-> "todo"]
    /\ nsPool = NewWorkPool(NumCPU, NumCPU)
    /\ nsTodo = nsIn.set
    /\ nsPc = "submit"
    /\ nsTouched = {}

\* the name the loop of stage 1 takes next: dirlist sorts LeftDirs.  The
\* goroutines of stage 2 range over maps: any name can be next.
NsNextUp(n) ==
    /\ n \in nsTodo
    /\ nsIn.stage = 1 => \A m \in nsTodo : NsIdx(n) <= NsIdx(m)

\* Submit of the operation on n; stage 1 marks the directory in cc.dirs[0]
NsSubmit(n) ==
    /\ nsPc = "submit"
    /\ NsNextUp(n)
    /\ CanSubmit(nsPool)
    /\ nsPool' = DoSubmit(nsPool, NsIdx(n))
    /\ nsTodo' = nsTodo \ {n}
    /\ nsTouched' = IF nsIn.stage = 1 THEN nsTouched \cup {n} ELSE nsTouched
    /\ UNCHANGED <<nsIn, nsDst, nsOwn, nsPc, nonNsVars>>

\* everything is submitted: Close(), and Wait() is called
NsClose ==
    /\ nsPc = "submit"
    /\ nsTodo = {}
    /\ nsPool' = DoWaitCall(DoClose(nsPool))
    /\ nsPc' = "wait"
    /\ UNCHANGED <<nsIn, nsDst, nsOwn, nsTodo, nsTouched, nonNsVars>>

NsRecv(w) ==
    /\ CanRecv(nsPool, w)
    /\ nsPool' = DoRecv(nsPool, w)
    /\ UNCHANGED <<nsIn, nsDst, nsOwn, nsTodo, nsPc, nsTouched, nonNsVars>>

NsExit(w) ==
    /\ CanExit(nsPool, w)
    /\ nsPool' = DoExit(nsPool, w)
    /\ UNCHANGED <<nsIn, nsDst, nsOwn, nsTodo, nsPc, nsTouched, nonNsVars>>

\* the name a worker works on
NsItem(w) == NsOrder[nsPool.w[w].item]

\* stage 1, File(dst, src) of a directory, first half: Lstat and Open of the
\* source, then os.MkdirAll(dst), which also makes the parents that are not
\* there
NsMkdirAll(w) ==
    /\ nsIn.stage = 1
    /\ CanRun(nsPool, w)
    /\ nsOwn[NsItem(w)] = "todo"
    /\ IF NsItem(w) = nsIn.deny
       THEN /\ nsPool' = DoRan(nsPool, w, [k |-> "err", e |-> <<"ENOENT", NsItem(w)>>])
            /\ nsOwn' = [nsOwn EXCEPT ![NsItem(w)] = "failed"]
            /\ UNCHANGED nsDst
       ELSE /\ nsDst' = nsDst \cup {m \in NsNames : NsItem(w) \in NsTree(m)}
            /\ nsOwn' = [nsOwn EXCEPT ![NsItem(w)] = "created"]
            /\ UNCHANGED nsPool
    /\ UNCHANGED <<nsIn, nsTodo, nsPc, nsTouched, nonNsVars>>

\* stage 1, File(dst, src) of a directory, second half: updateMeta
NsUpdateMeta(w) ==
    /\ nsIn.stage = 1
    /\ CanRun(nsPool, w)
    /\ nsOwn[NsItem(w)] = "created"
    /\ nsOwn' = [nsOwn EXCEPT ![NsItem(w)] = "done"]
    /\ nsPool' = DoRan(nsPool, w, [k |-> "nil"])
    /\ UNCHANGED <<nsIn, nsDst, nsTodo, nsPc, nsTouched, nonNsVars>>

\* the names of the files in the working directory
NsCwd == {NsBase(n) : n \in {m \in nsIn.cwd : nsOwn[m] # "removed"}}

\* os.RemoveAll(fi.Name()) for entry n, the unlinkat of its first try: the
\* working directory has no file of that name, or the file cannot be
\* removed, or it is removed
NsUnlinkErr(n) ==
    IF NsBase(n) \notin NsCwd THEN "ENOENT"
    ELSE IF n = nsIn.deny THEN "EACCES"
    ELSE "nil"

\* errors.Is(err, fs.ErrNotExist)
IsNotExist(err) == err = "ENOENT"

\* os.RemoveAll returns nil for a path that is not there
RemoveAllErr(n) == IF IsNotExist(NsUnlinkErr(n)) THEN "nil" ELSE NsUnlinkErr(n)

\* dowork, delOp: the error of os.RemoveAll is dropped when it is
\* fs.ErrNotExist
NsDelErr(n) ==
    IF RemoveAllErr(n) # "nil" /\ ~IsNotExist(RemoveAllErr(n))
    THEN RemoveAllErr(n) ELSE "nil"

\* stage 2, dowork of delOp{fi.Name()} for entry n: os.RemoveAll of the base
\* name removes the file of that name in the working directory, if there is
\* one; the destination is not looked at.  Without an error dowork records
\* filepath.Dir of the base name, the working directory, as touched
NsRemoveAll(w) ==
    /\ nsIn.stage = 2
    /\ CanRun(nsPool, w)
    /\ LET n == NsItem(w) IN
       IF NsDelErr(n) # "nil"
       THEN /\ nsPool' = DoRan(nsPool, w, [k |-> "err", e |-> <<NsDelErr(n), n>>])
            /\ nsOwn' = [nsOwn EXCEPT ![n] = "failed"]
            /\ UNCHANGED nsTouched
       ELSE /\ nsPool' = DoRan(nsPool, w, [k |-> "nil"])
            /\ nsOwn' = [nsOwn EXCEPT ![n] = IF NsUnlinkErr(n) = "nil" THEN "removed"
                                             ELSE "gone"]
            /\ nsTouched' = nsTouched \cup {"cwd"}
    /\ UNCHANGED <<nsIn, nsDst, nsTodo, nsPc, nonNsVars>>

NsSendErr(w) ==
    /\ CanSendErr(nsPool, w)
    /\ nsPool' = DoSendErr(nsPool, w)
    /\ UNCHANGED <<nsIn, nsDst, nsOwn, nsTodo, nsPc, nsTouched, nonNsVars>>

NsHarvest ==
    /\ CanHarvest(nsPool)
    /\ nsPool' = DoHarvest(nsPool)
    /\ UNCHANGED <<nsIn, nsDst, nsOwn, nsTodo, nsPc, nsTouched, nonNsVars>>

NsHarvestDone ==
    /\ CanHarvestDone(nsPool)
    /\ nsPool' = DoHarvestDone(nsPool)
    /\ UNCHANGED <<nsIn, nsDst, nsOwn, nsTodo, nsPc, nsTouched, nonNsVars>>

NsWaitWorkers ==
    /\ CanWaitWorkers(nsPool)
    /\ nsPool' = DoWaitWorkers(nsPool)
    /\ UNCHANGED <<nsIn, nsDst, nsOwn, nsTodo, nsPc, nsTouched, nonNsVars>>

\* Wait() returns: the stage is over
NsReturn ==
    /\ nsPc = "wait"
    /\ CanWaitReturn(nsPool)
    /\ nsPool' = DoWaitReturn(nsPool)
    /\ nsPc' = "done"
    /\ UNCHANGED <<nsIn, nsDst, nsOwn, nsTodo, nsTouched, nonNsVars>>

NsNext ==
    \/ \E n \in NsNames : NsSubmit(n)
    \/ NsClose
    \/ \E w \in DOMAIN nsPool.w : NsRecv(w)
    \/ \E w \in DOMAIN nsPool.w : NsExit(w)
    \/ \E w \in DOMAIN nsPool.w : NsMkdirAll(w)
    \/ \E w \in DOMAIN nsPool.w : NsUpdateMeta(w)
    \/ \E w \in DOMAIN nsPool.w : NsRemoveAll(w)
    \/ \E w \in DOMAIN nsPool.w : NsSendErr(w)
    \/ NsHarvest
    \/ NsHarvestDone
    \/ NsWaitWorkers
    \/ NsReturn

(***************************************************************************)
(*                          Specifications                                 *)
(***************************************************************************)
\* the machines of single calls and of CopyFd are not running
ExtIdle == FnIdle /\ CpIdle /\ NsIdle

SafeFileInit == SfInit /\ WpIdle /\ TreeIdle /\ WalkIdle /\ DiffIdle /\ ExtIdle

SafeFileSpec == SafeFileInit /\ [][SfNext]_vars

WorkPoolInit == WpInit /\ SfIdle /\ TreeIdle /\ WalkIdle /\ DiffIdle /\ ExtIdle

WorkPoolSpec == WorkPoolInit /\ [][WpNext]_vars

TreeInit == TrInit /\ SfIdle /\ wpSubmitted = 0 /\ wpCalls = <<>> /\ wpClient = NoClient /\ WalkIdle /\ DiffIdle /\ ExtIdle

TreeSpec == TreeInit /\ [][TrNext]_vars

WalkInit == WkInit /\ SfIdle /\ WpIdle /\ TreeIdle /\ DiffIdle /\ ExtIdle

DiffInit == DfInit /\ SfIdle /\ WpIdle /\ TreeIdle /\ WalkIdle /\ ExtIdle

DiffSpec == DiffInit /\ [][DfNext]_vars

CallInit == FnInit /\ SfIdle /\ WpIdle /\ TreeIdle /\ WalkIdle /\ DiffIdle /\ CpIdle /\ NsIdle

CallSpec == CallInit /\ [][FnNext]_vars

CopyInit == CpInit /\ SfIdle /\ WpIdle /\ TreeIdle /\ WalkIdle /\ DiffIdle /\ FnIdle /\ NsIdle

CopySpec == CopyInit /\ [][CpNext]_vars

NestInit == NsInit /\ SfIdle /\ WpIdle /\ TreeIdle /\ WalkIdle /\ DiffIdle /\ FnIdle /\ CpIdle

NestSpec == NestInit /\ [][NsNext]_vars

WalkSpec == WalkInit /\ [][WkNext]_vars

\* Every goroutine of the walker that can take a step gets to take it, and
\* the caller keeps taking what the channels hold.
WalkFairSpec == WalkSpec /\ WF_vars(WkNext)

\* Go schedules every goroutine that can run, and the client goes on to
\* Close and Wait: no step that stays possible is put off forever.
WorkPoolFairSpec == WorkPoolSpec /\ WF_vars(WpNext)

(***************************************************************************)
(*                        Claims about SafeFile                            *)
(***************************************************************************)
\* the target holds what it held before, or what a successful Close committed
TargetPriorOrCommitted ==
    \/ target = prior
    \/ sfHist.closeOk /\ target = Reg(sfHist.committed)

\* C1, as stated: at every point the target holds its prior content or the
\* complete content of the scratch file, the latter only after a Close that
\* returned success; and once Abort has been called or a write has returned
\* an error, the target has its prior content.
C1_TargetPriorAfterAnyAbortOrWriteError ==
    /\ TargetPriorOrCommitted
    /\ (sfHist.abortCalled \/ sfHist.writeErr) => target = prior

\* C1, amended: as above, but the Abort or the failed write must come before
\* any Close that returned success (a later Abort is a no-op, and a later
\* write fails with "not open", while the target keeps the committed content).
C1_TargetPriorUnlessCommitted ==
    /\ TargetPriorOrCommitted
    /\ (sfHist.abortUncommitted \/ sfHist.writeErrUncommitted) => target = prior

\* C1 witness: data was written over an existing target, Abort was called
\* first, and the target still has its prior content
C1_Witness ==
    /\ sfHist.wrote
    /\ sfHist.abortUncommitted
    /\ prior.k = "reg"
    /\ scratch = Absent
    /\ target = prior

\* C2: when Close returns the error of a failed fsync, close or rename, the
\* SafeFile has been aborted: the scratch file is gone and the state is
\* Aborted.
C2_CloseErrorAborts ==
    (sfLast.op = "Close" /\ sfLast.ret \in {"sync", "close", "rename"})
        => (sfClosed < 0 /\ scratch = Absent)

\* C3: once Close or Abort has been called, a later Close or Abort changes
\* nothing on disk and does not change the state.
C3_FirstCallWins ==
    [][(sfHist.seals >= 1 /\ sfHist'.seals > sfHist.seals)
          => UNCHANGED <<target, scratch, sfClosed>>]_vars

(***************************************************************************)
(*                        Claims about WorkPool                            *)
(***************************************************************************)
Range(f) == {f[i] : i \in DOMAIN f}

\* fp panicked on some item
FpPanicked == \E i \in Items : \E j \in DOMAIN wpCalls[i] :
                  wpCalls[i][j] \in {"panic", "panic-other"}

\* C4: if fp panics on an item, Wait still returns (the client closes the
\* pool and calls Wait), the process does not die, and the error Wait
\* returns includes one for the panic; unless a client made the process
\* panic by a call the pool does not allow.
C4_PanicRoutedAndWaitReturns ==
    [](FpPanicked =>
         <>(\/ wpClient.misused
            \/ /\ wp.wait = "returned"
               /\ ~wpCrashed
               /\ \E e \in Range(wp.ret) : e[1] = "panic"))

\* the submitted items on which fp returned an error
FailedItems == {i \in 1..wpSubmitted : wpCalls[i] = <<"err">>}

\* the errors Wait returned that fp returned
IsFpErr(e) == e[1] = "err"
FpErrs == SelectSeq(wp.ret, IsFpErr)

\* the errors Wait returned that a client passed to Err
IsUserErr(e) == e[1] = "user"
UserErrs == SelectSeq(wp.ret, IsUserErr)

\* C5: fp is called at most once on an item, and only on submitted items;
\* when Wait returns, fp has been called exactly once on every submitted
\* item, also after errors of other items, and Wait returns exactly the
\* errors fp returned, each once, and besides them only errors passed to
\* Err (so nil exactly when no call failed and Err passed none).
C5_EveryItemOnceAllErrorsJoined ==
    /\ \A i \in Items : Len(wpCalls[i]) <= (IF i <= wpSubmitted THEN 1 ELSE 0)
    /\ wp.wait = "returned" =>
          /\ \A i \in 1..wpSubmitted : Len(wpCalls[i]) = 1
          /\ Range(FpErrs) = {<<"err", i>> : i \in FailedItems}
          /\ Len(FpErrs) = Cardinality(FailedItems)
          /\ Len(UserErrs) = Len(wp.ret) - Len(FpErrs)
          /\ Len(UserErrs) <= wpClient.errs

\* C5 witness: Wait has returned after every item was submitted, two of them
\* failed and a later one succeeded
C5_Witness ==
    /\ wp.wait = "returned"
    /\ wpSubmitted = MaxItems
    /\ Len(wp.ret) >= 2
    /\ \E i \in Items : wpCalls[i] = <<"nil">> /\ \E j \in 1..(i - 1) : j \in FailedItems

(***************************************************************************)
(*                        Claims about Tree                                *)
(***************************************************************************)
\* the destination path the submitters of stage 2 give for name n
DstOf(n) == GoDst(trDiff.class[n], n)

\* the operations stage q has to do, by the path they work on
StageOps(q) ==
    CASE q = 1 -> In(trDiff, "LeftDirs")
      [] q = 2 -> {Name(n) : n \in In(trDiff, "RightFiles") \cup In(trDiff, "RightDirs")}
                  \cup {DstOf(n) : n \in {m \in In(trDiff, "Diff") \cup In(trDiff, "LeftFiles") :
                                             trLinks[DstOf(m)] = ""}}
      [] q = 3 -> {n \in Paths : trLinks[n] # ""}
      [] OTHER -> {}

\* every operation of stage q has been done, none is queued or running
StageCompleted(q) ==
    /\ StageOps(q) \subseteq trDone[q]
    /\ pool[q].ch = <<>>
    /\ ~Working(pool[q])

\* C6: while a worker runs an operation of stage 2, 3 or 4, every operation
\* of each earlier stage has completed: the directory creations of stage 1
\* before any copy or delete, the copies and deletes of stage 2 before any
\* hard link, the hard links of stage 3 before any metadata fixup.
C6_StagesInOrder ==
    \A p \in Pools : Working(pool[p]) => \A q \in Pools : q < p => StageCompleted(q)

\* a fixup operation is running after each earlier stage did some work
C6_Witness ==
    /\ Working(pool[4])
    /\ trDone[1] # {}
    /\ trDone[2] # {}
    /\ trDone[3] # {}

\* the entries of the source with key k that the submitters of stage 2 pass
\* to hardlinker.track and that it does not dismiss at once
Encountered(k) ==
    {n \in In(trDiff, "Diff") \cup In(trDiff, "LeftFiles") :
        ~Untracked(trDiff.lhs, trWalk.nlink, n) /\ key(trDiff.lhs[n]) = k}

\* a copyOp for path n has been submitted to the pool of stage 2
CopySubmitted(n) ==
    \/ n \in trDone[2]
    \/ \E i \in DOMAIN pool[2].ch : pool[2].ch[i].nm = n
    \/ \E w \in DOMAIN pool[2].w : pool[2].w[w].pc = "run" /\ pool[2].w[w].item.nm = n

\* C7: once the Diff and LeftFiles submitters are through, among the source
\* entries of one key exactly one was copied, and every other one is recorded
\* as a link to the destination of that one and was not copied.
C7_OneFirstEncounterPerKey ==
    (trGo["Diff"].pc = "done" /\ trGo["LeftFiles"].pc = "done") =>
        \A k \in FileInos :
            Encountered(k) # {} =>
                \E first \in Encountered(k) :
                    /\ CopySubmitted(DstOf(first))
                    /\ \A n \in Encountered(k) \ {first} :
                          trLinks[DstOf(n)] = DstOf(first) /\ ~CopySubmitted(DstOf(n))

\* C8: when a worker of stage 3 is about to link new_dst to original_dst,
\* original_dst is on disk and is the copy this run made of its source.
C8_LinkTargetExists ==
    \A w \in DOMAIN pool[3].w :
        pool[3].w[w].pc = "run" =>
            LET orig == pool[3].w[w].item.orig IN
            /\ orig \in Names
            /\ Exists(dstFs[orig])
            /\ dstFs[orig].ino = NewIno(orig)
            /\ dstFs[orig].data = trDiff.lhs[orig].data

\* C9: after a successful Tree on a source nobody changed, two files of the
\* source of which one has several links share an inode in the source exactly
\* when they share one in the destination.
C9_HardlinkGroupsPreserved ==
    (trPc = "done" /\ trRes = "nil" /\ trVanished = {}) =>
        \A n \in Files(srcFs) : \A m \in Files(srcFs) :
            Nlink(srcFs, n) > 1 =>
                /\ Exists(dstFs[n]) /\ Exists(dstFs[m])
                /\ (srcFs[n].ino = srcFs[m].ino) <=> (dstFs[n].ino = dstFs[m].ino)

\* C10: when the trees Tree was called on differ by a Funny entry (and the
\* source is as it was when the comparison is made), Tree returns the
\* funny-entries error, the destination stays as it was, and no pool is
\* made and no operation is run.
C10_FunnyRefusedUntouched ==
    (/\ trPc \notin {"idle", "start", "walk", "diff"}
     /\ trDiff.lhs = trIn.src
     /\ In(FsTree(trIn.src, trIn.dst), "Funny") # {}) =>
        /\ trPc = "done"
        /\ trRes = "funny"
        /\ dstFs = trIn.dst
        /\ pool = [p \in Pools |-> NoPool]
        /\ trDone = [p \in Pools |-> {}]

\* Tree refused a source file "d" for a destination directory "d" that has
\* entries in it
C10_Witness ==
    /\ trRes = "funny"
    /\ trIn.src["d"].t = "file"
    /\ trIn.dst["d"].t = "dir"
    /\ Exists(dstFs["d/f"])

\* defaultOptions(): no IgnoreMissing, runtime.NumCPU() workers
DefaultOptions == ~trOpt.ignoreMissing /\ trOpt.concurrency = NumCPU

\* Tree has returned nil, and no other process changed the source meanwhile
TreeSucceeded == trPc = "done" /\ trRes = "nil" /\ trVanished = {}

\* C11: after a successful Tree with default options, comparing the source
\* with the destination again puts every name in CommonDirs or CommonFiles:
\* Diff, Funny, LeftDirs, LeftFiles, RightDirs and RightFiles are empty.
C11_SecondDiffEmpty ==
    (TreeSucceeded /\ DefaultOptions) =>
        \A n \in Names : Class(srcFs, dstFs, n) \in {"", "CommonDirs", "CommonFiles"}

\* a successful Tree on a destination that had a file to replace and one to
\* delete or to add, and whose directory was fixed up afterwards
C11_Witness ==
    /\ TreeSucceeded /\ DefaultOptions
    /\ Cardinality(trDone[2]) >= 2
    /\ trDone[4] # {}
    /\ \E n \in Names : trIn.dst[n].t = "file" /\ dstFs[n].t = "file" /\ trIn.dst[n] # dstFs[n]

\* the attributes the clone of an entry has to share with it
SameEntry(l, r) ==
    /\ l.t = r.t
    /\ l.perm = r.perm
    /\ l.uid = r.uid
    /\ l.mtime = r.mtime
    /\ l.t = "file" => l.size = r.size /\ l.data = r.data

\* C12: after a successful Tree every entry of the source is in the
\* destination with the same type, permission bits, owner, mtime, and for a
\* regular file the same size and content, also where the comparison found
\* the entry Common.
C12_DestinationEqualsSource ==
    TreeSucceeded =>
        \A n \in Names : Exists(srcFs[n]) => SameEntry(srcFs[n], dstFs[n])

\* C13: a worker of stage 2 or 3 that runs an operation has an index that is
\* in the range of the touched-directories shards, whatever the configured
\* concurrency.
C13_ShardIndexInRange ==
    \A p \in Pools : \A w \in DOMAIN pool[p].w :
        (UsesShard(p) /\ pool[p].w[w].pc = "run") => ShardInRange(w)

\* Walk has returned its channels and both are closed; WalkFunc has returned
WalkOver ==
    /\ wkMain.pc = "returned"
    /\ wkCfg.mode = "Walk" => {"out", "errch"} \subseteq wkClosed

\* C14: when symlinks are not followed, for any starting paths (directories,
\* other entries, paths that lstat fails on) Walk returns its channels and,
\* with a caller that drains both, closes both; WalkFunc returns.
C14_WalkTerminates == <>(wkCfg.opt.follow \/ WalkOver)

\* directory d is put out for the first time in this step
FirstEmitted(d) == WkTree(d).t = "dir" /\ wkEmitted[d] = 0 /\ wkEmitted'[d] > 0

\* nothing beneath d has been put out so far
NothingBeneathEmitted(d) == \A q \in WkPaths : Beneath(d, q) => wkEmitted[q] = 0

\* no starting path lies beneath another starting path
NoNestedStarts ==
    \A i, j \in DOMAIN wkCfg.names : ~Beneath(wkCfg.names[i], wkCfg.names[j])

\* C15 as stated: the Info of every directory the walker puts out is put out
\* before the Info of any entry beneath it, for any number of workers and any
\* interleaving.
C15_DirBeforeBeneath ==
    [][\A d \in WkPaths : FirstEmitted(d) => NothingBeneathEmitted(d)]_vars

\* C15, amended: when symlinks are not followed and no starting path lies
\* beneath another starting path, the Info of every directory the walker puts
\* out is put out before the Info of any entry beneath it.
C15_DirBeforeBeneathOfOneWalk ==
    [][(~wkCfg.opt.follow /\ NoNestedStarts)
         => \A d \in WkPaths : FirstEmitted(d) => NothingBeneathEmitted(d)]_vars

\* two workers have put out directory a, the directory a/s in it and the
\* files beneath both
C15_Witness ==
    /\ ~wkCfg.opt.follow /\ NoNestedStarts
    /\ wkCfg.conc = NWorkers
    /\ wkEmitted["a"] > 0 /\ wkEmitted["a/f"] > 0
    /\ wkEmitted["a/s"] > 0 /\ wkEmitted["a/s/h"] > 0

\* how many of the paths in q with the inode key k have been put out
RECURSIVE EmittedOf(_, _)
EmittedOf(k, q) ==
    IF q = <<>> THEN 0
    ELSE (IF inoKey(WkTree(Head(q))) = k THEN wkEmitted[Head(q)] ELSE 0) + EmittedOf(k, Tail(q))

\* p is a starting path or lies beneath one
FromStart(p) ==
    \E i \in DOMAIN wkCfg.names : wkCfg.names[i] = p \/ Beneath(wkCfg.names[i], p)

\* C16: with IgnoreDuplicateInode set no two entries put out share
\* (dev, rdev, ino), in any interleaving of the workers; and when the walk is
\* over, of the paths that lead to one inode exactly one has been put out
\* (a symbolic link that is followed is itself not put out).
C16_OneEmissionPerInode ==
    wkCfg.opt.ignDup =>
        \A p \in WkPaths :
            /\ EmittedOf(inoKey(WkTree(p)), WkOrder) <= 1
            /\ (WalkOver /\ FromStart(p) /\ ~(wkCfg.opt.follow /\ WkTree(p).t = "link"))
                 => EmittedOf(inoKey(WkTree(p)), WkOrder) = 1

\* both directories were walked by two workers: the inode of a/f and b/g,
\* found through both, was put out once
C16_Witness ==
    /\ wkCfg.opt.ignDup /\ wkCfg.conc = NWorkers
    /\ wkCfg.names = <<"a", "b">>
    /\ WalkOver
    /\ wkEmitted["a/f"] + wkEmitted["b/g"] = 1
    /\ \E w \in DOMAIN wkW : wkW[w].pc = "exited"

\* directory p is handed to a worker to be descended
Queued(p) == \E i \in DOMAIN wkCh : wkCh[i] = p

\* C17: with OneFS set every Info put out has its (dev, rdev) pair in the set
\* recorded for the starting paths, and no directory whose pair is outside
\* that set is descended.
C17_OneFSOnly ==
    wkCfg.opt.oneFS =>
        \A p \in WkPaths :
            (wkEmitted[p] > 0 \/ Queued(p)) => fsKey(WkTree(p)) \in wkFs

\* the basename of p matches an exclude pattern
Excluded(p) == WkTree(p).base \in wkCfg.opt.excludes

\* C18: an entry whose basename matches an exclude pattern is never put out,
\* and when it is a directory nothing beneath it is visited or put out.
C18_ExcludedNeverEmitted ==
    \A p \in WkPaths :
        Excluded(p) =>
            /\ wkEmitted[p] = 0
            /\ ~Queued(p)
            /\ \A q \in WkPaths : Beneath(p, q) => wkEmitted[q] = 0

\* the sequential recursive walk of the paths in q (filepath.Walk of each, as
\* the test's oldWalk does): every entry found, in order; a path that lstat
\* fails on yields nothing, symbolic links are not followed
RECURSIVE SeqWalk(_)
SeqWalk(q) ==
    IF q = <<>> THEN <<>>
    ELSE LET p == Head(q) IN
         IF WkTree(p).t = "none" THEN SeqWalk(Tail(q))
         ELSE <<p>> \o SeqWalk((IF WkTree(p).t = "dir" THEN readDir(p) ELSE <<>>) \o Tail(q))

RECURSIVE Count(_, _)
Count(p, q) ==
    IF q = <<>> THEN 0 ELSE (IF Head(q) = p THEN 1 ELSE 0) + Count(p, Tail(q))

\* how often the sequential walk of the starting paths yields p under the
\* type mask
Expected(p) ==
    IF WkTree(p).t \in wkCfg.opt.types THEN Count(p, SeqWalk(wkCfg.names)) ELSE 0

WalkDefaults ==
    /\ ~wkCfg.opt.follow /\ ~wkCfg.opt.oneFS /\ ~wkCfg.opt.ignDup
    /\ wkCfg.opt.excludes = {}

\* no starting path is given twice
DistinctStarts ==
    \A i, j \in DOMAIN wkCfg.names : wkCfg.names[i] = wkCfg.names[j] => i = j

\* what the walker has put out is what the sequential walk finds: never a
\* path that the sequential walk does not find under the type mask, and when
\* the walk is over every path that it finds
SameSetAsSequentialWalk ==
    \A p \in WkPaths :
        /\ wkEmitted[p] > 0 => Expected(p) > 0
        /\ (WalkOver /\ Expected(p) > 0) => wkEmitted[p] > 0

\* C19 as stated: with default options (symlinks not followed, no excludes,
\* no filter) the set of paths the concurrent walker puts out for a type mask
\* is the set of paths of those types a sequential recursive walk of the same
\* starting paths finds, nothing missing and nothing extra, and each path is
\* put out once; directories are descended also when the mask leaves
\* directories out.
C19_SameAsSequentialWalk ==
    WalkDefaults =>
        /\ SameSetAsSequentialWalk
        /\ \A p \in WkPaths : wkEmitted[p] <= 1

\* C19, amended: with default options the walker puts out the set of paths
\* the sequential walk finds, and each path as often as the sequential walk
\* finds it: once when no starting path is given twice or lies beneath
\* another starting path.
C19_SameAsSequentialWalkOfStarts ==
    WalkDefaults =>
        /\ SameSetAsSequentialWalk
        /\ \A p \in WkPaths :
              /\ wkEmitted[p] <= Expected(p)
              /\ WalkOver => wkEmitted[p] = Expected(p)
              /\ (NoNestedStarts /\ DistinctStarts) => wkEmitted[p] <= 1

\* two workers, files only: both directories and the directory a/s were
\* descended and the files in them put out, the directories were not
C19_Witness ==
    /\ WalkDefaults /\ WalkOver
    /\ wkCfg.opt.types = {"file"} /\ wkCfg.conc = NWorkers
    /\ wkCfg.names = <<"a", "b">>
    /\ wkEmitted["a/s/h"] = 1 /\ wkEmitted["b/g"] = 1
    /\ wkEmitted["a"] = 0 /\ wkEmitted["a/s"] = 0

(***************************************************************************)
(*                          Claims about Diff                              *)
(***************************************************************************)
\* the maps of the Difference that hold name n
Where(n) == {c \in DiffMaps : n \in dfMap[c]}

\* C20: after Diff(lhs, rhs) every name of lhs or rhs is in exactly one of
\* the eight maps: a name only lhs has in LeftDirs or LeftFiles by its type,
\* a name only rhs has in RightDirs or RightFiles by its type, a name both
\* have in exactly one of CommonDirs, CommonFiles, Diff, Funny; no other name
\* is in any map; no name is ever in two maps; and the result is the one the
\* two inputs determine, whatever the interleaving of the workers.
C20_DiffPartitions ==
    \A n \in Names :
        LET l == dfIn.lhs[n]
            r == dfIn.rhs[n]
        IN /\ Cardinality(Where(n)) <= 1
           /\ dfPc = "done" =>
                /\ (~Exists(l) /\ ~Exists(r)) => Where(n) = {}
                /\ (Exists(l) /\ ~Exists(r)) =>
                       Where(n) = {IF l.t = "dir" THEN "LeftDirs" ELSE "LeftFiles"}
                /\ (~Exists(l) /\ Exists(r)) =>
                       Where(n) = {IF r.t = "dir" THEN "RightDirs" ELSE "RightFiles"}
                /\ (Exists(l) /\ Exists(r)) =>
                       /\ Cardinality(Where(n)) = 1
                       /\ Where(n) \subseteq {"CommonDirs", "CommonFiles", "Diff", "Funny"}
                /\ Where(n) = {Class(dfIn.lhs, dfIn.rhs, n)} \ {""}

\* Diff has returned for maps with a name only lhs has, a name only rhs has
\* and a name both have
C20_Witness ==
    /\ dfPc = "done"
    /\ \E n \in Names : Where(n) \subseteq {"LeftDirs", "LeftFiles"} /\ Where(n) # {}
    /\ \E n \in Names : Where(n) \subseteq {"RightDirs", "RightFiles"} /\ Where(n) # {}
    /\ \E n \in Names : Where(n) \subseteq {"CommonDirs", "CommonFiles", "Diff", "Funny"}
                          /\ Where(n) # {}
    /\ dfMap["done"] = {}

\* C21: a name is classified Funny exactly when both maps hold it and the
\* two entries have different file types; two entries of one file type are
\* never Funny, whatever their other mode bits.
C21_FunnyIffTypesDiffer ==
    dfPc = "done" =>
        \A n \in Names :
            n \in dfMap["Funny"] <=>
                /\ Exists(dfIn.lhs[n]) /\ Exists(dfIn.rhs[n])
                /\ dfIn.lhs[n].t # dfIn.rhs[n].t

(***************************************************************************)
(*                     Claims about single calls                           *)
(***************************************************************************)
\* attribute a of the pair is the same on both sides
SameAttr(a, l, r) ==
    CASE a = "size" -> l.size = r.size
      [] a = "mtime" -> l.mtime = r.mtime
      [] a = "uid" -> l.uid = r.uid
      [] a = "gid" -> l.gid = r.gid
      [] OTHER -> XattrEqual(l.xattr, r.xattr)

\* the attributes lhsDiff compares for the pair under the options: the size
\* of regular files, the mtime of all but symbolic links, and uid, gid and
\* xattr unless ignored
Compared(opt, l) ==
    (IF l.t = "file" THEN {"size"} ELSE {})
    \cup (IF l.t # "link" THEN {"mtime"} ELSE {})
    \cup (IgnFlags \ opt.ign)

\* C22: for a pair of one type, an attribute the options ignore (uid, gid,
\* xattr) never makes the pair Diff; a pair of symbolic links that differs
\* only in mtime is Common; and deepEq is called, once, only for a pair for
\* which every comparison before it that is not ignored (size, mtime, uid,
\* gid, xattr) found the two sides equal.
C22_IgnoredAndDeepLast ==
    (fnIn.f = "lhsDiff" /\ fnOut.pc = "done") =>
        LET opt == fnIn.opt
            l == fnIn.l
            r == fnIn.r
            allEq == \A a \in Compared(opt, l) : SameAttr(a, l, r)
        IN /\ fnOut.v.why \notin opt.ign
           /\ (allEq /\ opt.deep # "ne") => fnOut.v.class \in {"CommonDirs", "CommonFiles"}
           /\ ~allEq => fnOut.v.class = "Diff"
           /\ fnOut.v.deep <= 1
           /\ fnOut.v.deep = 1 => allEq

\* a pair of symbolic links that differs in mtime and in the ignored gid:
\* deepEq was called and the pair came out Common
C22_Witness ==
    /\ fnIn.f = "lhsDiff" /\ fnOut.pc = "done"
    /\ fnIn.l.t = "link" /\ fnIn.l.mtime # fnIn.r.mtime
    /\ fnIn.opt.ign = {"gid"} /\ fnIn.l.gid # fnIn.r.gid
    /\ fnOut.v.deep = 1
    /\ fnOut.v.class = "CommonFiles"

\* a worker is inside rhsDiff
InRhsDiff(w) == dfPool.w[w].pc = "run" /\ dfPool.w[w].item.side = "rhs"

\* C23: no item of the right pass is looked at before every item of the left
\* pass has finished and put its name in c.done, c.funny or a Left map; so in
\* any interleaving of the workers a name both maps hold is never classified
\* RightDirs or RightFiles.
C23_LeftPassBeforeRightPass ==
    /\ \A w \in DOMAIN dfPool.w :
           InRhsDiff(w) =>
               \A n \in Keys(dfIn.lhs) :
                   IF Exists(dfIn.rhs[n])
                   THEN n \in dfMap["done"] \cup dfMap["Funny"]
                   ELSE n \in dfMap["LeftDirs"] \cup dfMap["LeftFiles"]
    /\ \A n \in Keys(dfIn.lhs) \cap Keys(dfIn.rhs) :
           n \notin dfMap["RightDirs"] \cup dfMap["RightFiles"]

\* two workers are inside rhsDiff, one of them on a name both maps hold
C23_Witness ==
    /\ \A w \in {0, 1} : w \in DOMAIN dfPool.w /\ InRhsDiff(w)
    /\ dfPool.w[0].item.nm \in Keys(dfIn.lhs)
    /\ Cardinality(Keys(dfIn.lhs)) >= 2

\* C26: cloning a symlink to a name that is free succeeds, also when the
\* link leads nowhere, and the new link holds the string the source holds.
C26_SymlinkCloned ==
    (fnIn.f = "File" /\ fnOut.pc = "done" /\ ~fnIn.dstThere) =>
        fnOut.v.err = "nil" /\ fnOut.v.link = fnIn.targ

\* C27: Xattr.Equal(x, y) is true exactly when x and y have the same keys
\* and the same value for every key; so it is symmetric, and false when one
\* side has a key the other lacks.
C27_EqualIsSameMap ==
    (fnIn.f = "Equal" /\ fnOut.pc = "done") =>
        (fnOut.v <=> (/\ DOMAIN fnIn.x = DOMAIN fnIn.y
                      /\ \A k \in DOMAIN fnIn.x : fnIn.x[k] = fnIn.y[k]))

\* C28: when ReplaceXattr or LreplaceXattr returns nil, the attributes of
\* the path are exactly those of the argument; and when clearing the
\* attributes the path had fails, an error is returned.
C28_ReplaceIsExact ==
    (fnIn.f = "repl" /\ fnOut.pc = "done") =>
        /\ fnOut.v.err = "nil" => fnOut.v.attrs = fnIn.x
        /\ (fnIn.fail = "list" \/ (fnIn.fail = "del" /\ fnIn.key \in DOMAIN fnIn.old)) =>
               fnOut.v.err # "nil"


\* C31: for every Info x, MarshalTo writes exactly x.MarshalSize() bytes,
\* and Unmarshal of those bytes consumes as many and gives an Info equal to
\* x in every field: name, ids, size, mode, the three times to the
\* nanosecond, and the attributes.
C31_MarshalRoundTrip ==
    (fnIn.f = "Marshal" /\ fnOut.pc = "done") =>
        /\ fnOut.v.m.err = "nil"
        /\ fnOut.v.m.n = MarshalSize(fnIn.x)
        /\ fnOut.v.wrote = MarshalSize(fnIn.x)
        /\ fnOut.v.u.err = "nil"
        /\ fnOut.v.u.n = fnOut.v.m.n
        /\ fnOut.v.u.ii = fnIn.x


\* C32: misuse of Wait is answered with an error value: a Wait on a pool
\* whose submission is not closed returns ErrNotClosed and does not block in
\* wp.wg.Wait(), and a second Wait returns ErrCompleted and does not panic.
C32_WaitMisuseReported ==
    /\ wp.wait = "wg" => wp.stopped
    /\ wp.wait # "panic"


(***************************************************************************)
(*                   More claims about Tree and the walk                   *)
(***************************************************************************)
\* C34: when in stage 4 the Lstat of the source of a touched directory
\* fails and IgnoreMissing is not set, Tree returns an error.
C34_FixupErrorReported ==
    (trPc = "done" /\ trErrs > 0 /\ ~trOpt.ignoreMissing) => trRes = "error"


\* C33: in stage 1 the creation of a directory of LeftDirs starts only when
\* the creation and the metadata of each of its ancestors in LeftDirs are
\* done, for any number of workers.
C33_ParentsDoneFirst ==
    nsIn.stage = 1 =>
        \A n \in nsIn.set : nsOwn[n] \in {"created", "done"} =>
            \A m \in nsIn.set : NsUnder(m, n) => nsOwn[m] = "done"


\* C35: when stage 2 is over and no delete failed, every entry of RightFiles
\* and RightDirs is absent from the destination, in whatever order the
\* deletes ran and whoever removed an entry beneath another, and every error
\* reported is about an entry that is still there, none about an entry that
\* was already gone.
C35_DeletesTolerateGone ==
    (nsIn.stage = 2 /\ nsPc = "done") =>
        /\ nsPool.ret = <<>> => \A n \in nsIn.set : n \notin nsDst
        /\ \A i \in DOMAIN nsPool.ret : nsPool.ret[i][2] \in nsDst
        /\ nsIn.deny = "none" => nsPool.ret = <<>>


\* C36: cloning a symlink changes the new link only: the mode of the entry
\* the link leads to is never set.
C36_SymlinkCloneLocal ==
    (fnIn.f = "File" /\ fnOut.pc = "done") => ~fnOut.v.chmod


\* the directories queued: held by a goroutine of enq or in d.ch
RECURSIVE WkHeld(_)
WkHeld(q) == IF q = <<>> THEN 0 ELSE Len(Head(q)) + WkHeld(Tail(q))

WkQueued == WkHeld(wkEnq) + Len(wkCh)

\* the directories being read by a worker
WkReading == Cardinality({w \in DOMAIN wkW : wkW[w].pc = "walk"})

\* C37: in every interleaving of the workers, the goroutines of enq and the
\* closing goroutine, the directory wait group is zero only when no
\* directory is queued or being read; nothing is sent on d.ch, out or
\* d.errch once that channel is closed; and no channel is closed a second
\* time.
C37_WaitGroupAndChannels ==
    [][/\ wkDirWg' = 0 => (WkQueued' = 0 /\ WkReading' = 0)
       /\ Len(wkCh') > Len(wkCh) => "ch" \notin wkClosed
       /\ Len(wkOut') > Len(wkOut) => "out" \notin wkClosed
       /\ Len(wkErrch') > Len(wkErrch) => "errch" \notin wkClosed
       /\ wkClosed' # wkClosed => wkClosed = {}]_vars

\* two workers have walked a, a/s and b, the worker of b has sent the error
\* of the link b/l, which does not resolve, the wait group is back at zero
\* and Walk has closed the three channels
C37_Witness ==
    /\ wkCfg.mode = "Walk" /\ wkCfg.conc = NWorkers
    /\ wkCfg.opt.follow /\ wkCfg.names = <<"a", "b">>
    /\ wkClosed = {"ch", "out", "errch"}
    /\ wkDirWg = 0
    /\ wkEmitted["a/s/h"] > 0 /\ wkEmitted["b/n"] > 0
    /\ wkErrch = <<"b/l">>
    /\ \A w \in DOMAIN wkW : wkW[w].pc = "exited"


\* the walk follows symbolic links on the tree where the link b/b leads to
\* b, the directory it is in, and starts from directory b
WalksCycle ==
    wkCfg.opt.follow /\ wkCfg.cyc /\ wkCfg.names = <<"b">>

\* C38: with FollowSymlinks set, the walk of a tree with a symbolic link that
\* leads to a directory above it comes to an end, and Walk closes its
\* channels, with and without IgnoreDuplicateInode.
C38_CycleWalkTerminates == <>(WalksCycle => WalkOver)


(***************************************************************************)
(*              Claims about the sticky error and NewSafeFile              *)
(***************************************************************************)
\* a call of Write, WriteAt or Close returns in this step
SfReturns == sfHist'.calls > sfHist.calls /\ sfLast'.op \in {"Write", "WriteAt", "Close"}

\* the call that returns in this step returns the error e, a Write or
\* WriteAt without writing, a Close without renaming the scratch file onto
\* the target
SfRefuses(e) ==
    /\ sfLast'.ret = e
    /\ sfLast'.op # "Close" => scratch' = scratch
    /\ target' = target

\* C29 as stated: after a Write or WriteAt returned an error, every later
\* Write or WriteAt returns that same error without writing, and Close
\* returns that error without renaming the scratch file onto the target.
C29_WriteErrorSticky ==
    [][(sfHist.werr # "nil" /\ SfReturns) => SfRefuses(sfHist.werr)]_vars

\* C29, amended: after a Write or WriteAt returned an error other than
\* "not open" (the answer of a SafeFile that is closed or aborted already),
\* every later Write or WriteAt returns that same error without writing,
\* and Close returns that error without renaming the scratch file onto the
\* target.
C29_WriteErrorStickyWhileOpen ==
    [][(sfHist.werr \notin {"nil", "not-open"} /\ SfReturns) => SfRefuses(sfHist.werr)]_vars

\* a write failed, the next write was refused, and Close returned the error
\* of the first and left the target as it was
C29_Witness ==
    /\ sfHist.werr = "write"
    /\ sfHist.calls >= 3
    /\ sfLast = [op |-> "Close", ret |-> "write"]
    /\ target = prior
    /\ scratch = Absent


\* C30: NewSafeFile fails when the target exists and OPT_OVERWRITE is not
\* set, and fails when the target exists and is not a regular file whatever
\* the options; in both cases the target is as it was.
C30_NewSafeFileRefuses ==
    (sfNew # "none" /\ prior.k # "absent" /\ (~sfHist.ovw \/ prior.k # "reg")) =>
        sfNew = "failed" /\ target = prior


\* C39: when NewSafeFile returned an error, whatever step failed, no scratch
\* file is on disk and no file handle is open.
C39_FailureLeavesNothing ==
    sfNew = "failed" => (scratch = Absent /\ sfFd # "open")


(***************************************************************************)
(*                        Claims about CopyFd                              *)
(***************************************************************************)
\* C24: when the copy reports success, whichever of reflink, range copy and
\* mmap copy ran, the content and the size of the destination are those of
\* the source, for any size of the source (0 and more than one chunk
\* included) and anything the destination held before, also when that was
\* longer than the source.
C24_CopyIsExact ==
    (cpS.pc = "done" /\ cpS.res = "nil") => cpDst = cpIn.src

\* C25: the range copy transfers the source in consecutive chunks of at most
\* _ioChunkSize bytes: each chunk starts, in the source and in the
\* destination, at the number of bytes transferred so far; on success the
\* chunks cover exactly [0, size); and an error is returned only for a
\* failing system call or a transfer of zero bytes before the end of the
\* source.
C25_ChunksAreConsecutive ==
    cpIn.tier = "range" =>
        /\ \A i \in DOMAIN cpHist :
               /\ cpHist[i].m <= ChunkSize
               /\ cpHist[i].roff = cpHist[i].before
               /\ cpHist[i].woff = cpHist[i].before
        /\ (cpS.pc = "done" /\ cpS.res = "zero sized transfer") =>
               cpHist[Len(cpHist)].roff < Len(cpIn.src)
        /\ (cpS.pc = "done" /\ cpS.res = "nil") =>
               (IF cpHist = <<>> THEN 0
                ELSE cpHist[Len(cpHist)].before + cpHist[Len(cpHist)].m) = Len(cpIn.src)

====
